---- MODULE Spec2Model ----
(***************************************************************************)
(* Provider routing, search aggregation and result ranking of icebergGen.  *)
(*                                                                         *)
(* Spec        the Provider Health Router (provider-router-enhanced.ts):   *)
(*             call outcomes, cooldown recovery, health checks, queries.   *)
(* SpecSearch  the Search Aggregation Orchestrator                         *)
(*             (search-service-enhanced.ts) with the provider adapters.    *)
(* SpecCache   calls of comprehensiveSearch one after the other, sharing   *)
(*             the response cache.                                         *)
(* SpecAborts  calls of comprehensiveSearch one after the other that are   *)
(*             aborted or run into the provider timeout.                   *)
(* SpecMerge   the Result Merger (result-merger) called on its own.        *)
(* SpecRetry   withRetry (async-utils.ts) under the options of its callers.*)
(* SpecEndpoint the search endpoint with the sequential search service.    *)
(* SpecStore   the MemoryCache (cache-utils.ts) on its own.                *)
(* SpecPool    withConcurrencyLimit (async-utils.ts) on its own.           *)
(* SpecRecovery the Router over a long run of time, under fairness.        *)
(* SpecMemo    a function wrapped by MemoryCache.memoize, called          *)
(*             concurrently.                                               *)
(* SpecScheduler  the TaskScheduler: schedule, unschedule, runNow and the   *)
(*             periodic checkTasks, with task functions that take time.    *)
(* SpecLevels  ensureKnowledgeLevels (result-merger) called on its own.     *)
(* SpecRanking one call of comprehensiveSearch whose providers may answer  *)
(*             with items in any order.                                    *)
(*                                                                         *)
(* Times are milliseconds.  Weights are exact rationals <<n, d>>, d > 0,   *)
(* in lowest terms (the source uses IEEE doubles; rounding is not          *)
(* modelled).                                                              *)
(***************************************************************************)
EXTENDS Integers, Sequences, FiniteSets, TLC

VARIABLES
  st,                   \* providerStatuses: provider -> ProviderStatus
  now,                  \* Date.now()
  lastHealthCheckTime,  \* module variable lastHealthCheckTime
  hc,                   \* provider -> health check awaiting its result
  ret,                  \* history: the last call of getAvailableProviders, if it was the last operation
  consec,               \* history: provider -> length of the current run of ordinary failures
  rlTime,               \* history: provider -> time of the last rate-limit failure (-1: none)
  steps,                \* call outcomes, clock advances and health-check runs so far (bounded)
  srch,                 \* the call of comprehensiveSearch: its locals and the calls it started
  memoryCache,          \* memoryCache: the cached search responses and LLM enhancements
  merger,               \* a call of mergeProviderResults: its argument and what it returned
  last,                 \* history: the call of comprehensiveSearch before this one
  retry,                \* a call of withRetry: its options, its attempt counter, the outcomes so far
  req,                  \* a GET request of the search endpoint and the sequential search it runs
  pool,                 \* a call of withConcurrencyLimit: its items, workers and results
  cacheOp,              \* history: the last operation on a MemoryCache and the live writes
  memo,                 \* the calls of a function wrapped by MemoryCache.memoize
  sched                 \* the TaskScheduler: its tasks, its ticks and the executions in progress

routerVars == <<st, now, lastHealthCheckTime, hc, ret, consec, rlTime, steps>>

utilVars == <<req, pool, cacheOp, memo, sched>>

searchVars == <<srch, memoryCache, merger, last, retry, utilVars>>

vars == <<routerVars, searchVars>>

(***************************************************************************)
(* Bounds                                                                  *)
(***************************************************************************)
NumProviders == 2
MaxSteps == 3
MaxPriorFailures == 1
MaxMergeResults == 3
MaxSearches == 3
MaxCacheOps == 4
MaxItems == 3
MaxConcurrency == 3
MaxLevelResults == 5
MaxMemoCalls == 3
MaxMemoTicks == 2
MaxSchedTicks == 2
MaxTaskObjects == 2
MaxManualRuns == 1

(***************************************************************************)
(* Rational arithmetic                                                     *)
(***************************************************************************)
RECURSIVE GCD(_, _)
GCD(a, b) == IF b = 0 THEN a ELSE GCD(b, a % b)

Abs(a) == IF a < 0 THEN -a ELSE a

Rat(n, d) ==
  LET g == GCD(Abs(n), d)
  IN  IF n = 0 THEN <<0, 1>> ELSE <<n \div g, d \div g>>

Zero == <<0, 1>>
One == <<1, 1>>
RAdd(x, y) == Rat(x[1] * y[2] + y[1] * x[2], x[2] * y[2])
RSub(x, y) == Rat(x[1] * y[2] - y[1] * x[2], x[2] * y[2])
RMul(x, y) == Rat(x[1] * y[1], x[2] * y[2])
RLe(x, y) == x[1] * y[2] <= y[1] * x[2]
RLt(x, y) == x[1] * y[2] < y[1] * x[2]
RMax(x, y) == IF RLe(x, y) THEN y ELSE x
RMin(x, y) == IF RLe(x, y) THEN x ELSE y

(***************************************************************************)
(* Constants of provider-router-enhanced.ts                                *)
(***************************************************************************)
FAILURE_THRESHOLD == 3
BASE_COOLDOWN_PERIOD == 5 * 60 * 1000
RATE_LIMIT_COOLDOWN == 60 * 60 * 1000
MAX_COOLDOWN == 24 * 60 * 60 * 1000
MIN_COOLDOWN == 60 * 1000
HEALTH_CHECK_INTERVAL == 15 * 60 * 1000
MAX_ACCEPTABLE_RESPONSE_TIME == 5000
WARNING_RESPONSE_TIME == 3000
MAX_RESPONSE_TIMES == 10

ProviderOrder == <<"tavily", "exa", "google", "openrouter">>
ProviderSeq == SubSeq(ProviderOrder, 1, IF NumProviders < 4 THEN NumProviders ELSE 4)
ProviderName == {ProviderSeq[i] : i \in 1..Len(ProviderSeq)}

NoTime == -1

\* the state of every provider at module load
InitialStatus ==
  [failureCount |-> 0, lastFailureTime |-> NoTime, weight |-> One,
   isDeprecated |-> FALSE, lastErrorMessage |-> "", responseTime |-> <<>>,
   successCount |-> 0, healthCheckStatus |-> "unknown", cooldownMultiplier |-> 1]

(***************************************************************************)
(* Inputs                                                                  *)
(***************************************************************************)
\* error messages a caller may pass; "" stands for an error without message
ErrorMessages == {"", "Tavily API rate limit exceeded: Rate Limit"}

\* String.prototype.toLowerCase().includes("rate limit") on those messages
IncludesRateLimit(m) == m \in {"Tavily API rate limit exceeded: Rate Limit"}

\* response times a caller may pass with a success; 0 stands for none (falsy)
ResponseTimes == {0, 4000}

\* failures are recorded without a response time (as at
\* search-service-enhanced.ts:475)
FailureResponseTimes == {0}

\* minWeight arguments
MinWeights == {Zero, <<3, 10>>}

\* clock advances
TickSteps == {MIN_COOLDOWN, 2 * RATE_LIMIT_COOLDOWN}

StartTime == HEALTH_CHECK_INTERVAL + MIN_COOLDOWN

(***************************************************************************)
(* Router: pure parts                                                      *)
(***************************************************************************)
RECURSIVE SumSeq(_)
SumSeq(s) == IF s = <<>> THEN 0 ELSE Head(s) + SumSeq(Tail(s))

Take(s, n) == SubSeq(s, 1, IF Len(s) < n THEN Len(s) ELSE n)

trackResponseTime(s, rt) ==
  [s EXCEPT !.responseTime = Take(<<rt>> \o s.responseTime, MAX_RESPONSE_TIMES)]

\* null is Zero: both are falsy where the result is used
getAverageResponseTime(s) ==
  IF Len(s.responseTime) = 0 THEN Zero
  ELSE Rat(SumSeq(s.responseTime), Len(s.responseTime))

\* updateProviderWeight deprecating only above the threshold (> for >=)
updateProviderWeight_strict(s) ==
  LET total == s.failureCount + s.successCount
      failureRatio == Rat(s.failureCount, IF total = 0 THEN 1 ELSE total)
      newWeight == RMax(<<1, 10>>, RSub(One, failureRatio))
  IN  IF s.failureCount > FAILURE_THRESHOLD
      THEN [s EXCEPT !.isDeprecated = TRUE, !.weight = Zero, !.healthCheckStatus = "failing"]
      ELSE [s EXCEPT !.weight = RAdd(RMul(s.weight, <<7, 10>>), RMul(newWeight, <<3, 10>>))]

updateProviderWeight(s) ==
  LET total == s.failureCount + s.successCount
      failureRatio == Rat(s.failureCount, IF total = 0 THEN 1 ELSE total)
      avg == getAverageResponseTime(s)
      responseTimeFactor ==
        IF avg # Zero
        THEN RMax(<<1, 2>>, RSub(One, RMul(avg, <<1, MAX_ACCEPTABLE_RESPONSE_TIME>>)))
        ELSE One
      newWeight == RMax(<<1, 10>>, RMul(RSub(One, failureRatio), responseTimeFactor))
  IN  IF s.failureCount >= FAILURE_THRESHOLD
      THEN [s EXCEPT !.isDeprecated = TRUE, !.weight = Zero, !.healthCheckStatus = "failing"]
      ELSE [s EXCEPT !.weight = RAdd(RMul(s.weight, <<7, 10>>), RMul(newWeight, <<3, 10>>))]

updateHealthStatus(s) ==
  LET avg == getAverageResponseTime(s)
  IN  IF s.isDeprecated THEN [s EXCEPT !.healthCheckStatus = "failing"]
      ELSE IF s.failureCount >= FAILURE_THRESHOLD - 1 THEN [s EXCEPT !.healthCheckStatus = "failing"]
      ELSE IF s.failureCount > 0 THEN [s EXCEPT !.healthCheckStatus = "warning"]
      ELSE IF avg # Zero /\ RLt(<<MAX_ACCEPTABLE_RESPONSE_TIME, 1>>, avg)
        THEN [s EXCEPT !.healthCheckStatus = "warning"]
      ELSE IF avg # Zero /\ RLt(<<WARNING_RESPONSE_TIME, 1>>, avg)
        THEN [s EXCEPT !.healthCheckStatus = "warning"]
      ELSE [s EXCEPT !.healthCheckStatus = "passing"]

resetProviderStatus(s, initialWeight) ==
  [s EXCEPT !.failureCount = 0, !.lastFailureTime = NoTime, !.weight = initialWeight,
            !.isDeprecated = FALSE, !.healthCheckStatus = "unknown",
            !.cooldownMultiplier = 1]

\* recordProviderFailure treating a rate-limit failure as an ordinary one
recordProviderFailure_noRateLimit(s, msg, isRateLimit, rt, t) ==
  updateHealthStatus(updateProviderWeight(
    [s EXCEPT !.failureCount = s.failureCount + 1, !.lastFailureTime = t,
              !.lastErrorMessage = IF msg = "" THEN "Unknown error" ELSE msg]))

recordProviderFailure(s, msg, isRateLimit, rt, t) ==
  LET s1 == [s EXCEPT !.failureCount = s.failureCount + 1,
                      !.lastFailureTime = t,
                      !.lastErrorMessage = IF msg = "" THEN "Unknown error" ELSE msg]
      s2 == IF rt # 0 THEN trackResponseTime(s1, rt) ELSE s1
  IN  IF isRateLimit
      THEN [s2 EXCEPT !.isDeprecated = TRUE, !.weight = Zero,
                      !.healthCheckStatus = "failing", !.cooldownMultiplier = 2]
      ELSE updateHealthStatus(updateProviderWeight(s2))

\* recordProviderSuccess restoring a failing provider at once
recordProviderSuccess_reset(s, rt) ==
  LET s1 == [s EXCEPT !.successCount = s.successCount + 1]
      s2 == IF rt # 0 THEN trackResponseTime(s1, rt) ELSE s1
  IN  updateHealthStatus(IF s2.failureCount > 0 \/ s2.isDeprecated
                           THEN resetProviderStatus(s2, One)
                         ELSE s2)

recordProviderSuccess(s, rt) ==
  LET s1 == [s EXCEPT !.successCount = s.successCount + 1]
      s2 == IF rt # 0 THEN trackResponseTime(s1, rt) ELSE s1
      s3 == IF s2.failureCount > 0 /\ ~s2.isDeprecated
              THEN updateProviderWeight(
                     [s2 EXCEPT !.failureCount = IF s2.failureCount - 1 < 0 THEN 0
                                                 ELSE s2.failureCount - 1])
            ELSE IF s2.isDeprecated THEN resetProviderStatus(s2, <<1, 2>>)
            ELSE IF RLt(s2.weight, One)
              THEN [s2 EXCEPT !.weight = RMin(One, RAdd(s2.weight, <<1, 10>>))]
            ELSE s2
  IN  updateHealthStatus(s3)

\* the cooldown checkProviderRecovery computes for a status
Cooldown(s) ==
  LET base == IF IncludesRateLimit(s.lastErrorMessage)
              THEN RATE_LIMIT_COOLDOWN ELSE BASE_COOLDOWN_PERIOD
      c == base * s.cooldownMultiplier
      lo == IF c < MIN_COOLDOWN THEN MIN_COOLDOWN ELSE c
  IN  IF lo > MAX_COOLDOWN THEN MAX_COOLDOWN ELSE lo

\* checkProviderRecovery restoring full trust instead of the probation weight
checkProviderRecovery_fullTrust(s, t) ==
  IF ~s.isDeprecated \/ s.lastFailureTime = NoTime THEN s
  ELSE IF t - s.lastFailureTime > Cooldown(s)
    THEN [s EXCEPT !.failureCount = 0, !.lastFailureTime = NoTime, !.weight = One,
                   !.isDeprecated = FALSE, !.healthCheckStatus = "warning"]
  ELSE s

checkProviderRecovery(s, t) ==
  IF ~s.isDeprecated \/ s.lastFailureTime = NoTime THEN s
  ELSE IF t - s.lastFailureTime > Cooldown(s)
    THEN [s EXCEPT !.failureCount = 0, !.lastFailureTime = NoTime, !.weight = <<3, 10>>,
                   !.isDeprecated = FALSE, !.healthCheckStatus = "warning"]
  ELSE s

\* providerStatuses after checkProviderRecovery of every provider in ps; and
\* a loop that stops after the first provider it resets
Recovered_one(S, ps, t) ==
  LET due == {p \in ps \cap DOMAIN S : checkProviderRecovery(S[p], t) # S[p]}
  IN  [p \in DOMAIN S |->
         IF due # {} /\ p = (CHOOSE q \in due : TRUE) THEN checkProviderRecovery(S[p], t)
         ELSE S[p]]

Recovered(S, ps, t) ==
  [p \in DOMAIN S |-> IF p \in ps THEN checkProviderRecovery(S[p], t) ELSE S[p]]

\* Array.prototype.sort with (a, b) => weight[b] - weight[a]: stable, highest first
RECURSIVE InsertByWeight(_, _, _)
InsertByWeight(sorted, p, S) ==
  IF sorted = <<>> THEN <<p>>
  ELSE IF RLt(S[Head(sorted)].weight, S[p].weight) THEN <<p>> \o sorted
  ELSE <<Head(sorted)>> \o InsertByWeight(Tail(sorted), p, S)

RECURSIVE SortByWeight(_, _)
SortByWeight(seq, S) ==
  IF seq = <<>> THEN <<>>
  ELSE InsertByWeight(SortByWeight(SubSeq(seq, 1, Len(seq) - 1), S), seq[Len(seq)], S)

\* getAvailableProviders with an exclusive weight filter (> for >=)
getAvailableProviders_exclusive(S, includeDeprecated, minWeight) ==
  LET Keep(p) == /\ p \in DOMAIN S
                 /\ (includeDeprecated \/ ~S[p].isDeprecated)
                 /\ RLt(minWeight, S[p].weight)
  IN  SortByWeight(SelectSeq(ProviderOrder, Keep), S)

\* the list getAvailableProviders returns on statuses S, S being the table
\* after the loop's checkProviderRecovery calls; the keys of the table are
\* visited in insertion order
getAvailableProviders(S, includeDeprecated, minWeight) ==
  LET Keep(p) == /\ p \in DOMAIN S
                 /\ (includeDeprecated \/ ~S[p].isDeprecated)
                 /\ RLe(minWeight, S[p].weight)
  IN  SortByWeight(SelectSeq(ProviderOrder, Keep), S)


(***************************************************************************)
(* Search: configuration and data                                          *)
(***************************************************************************)
AllProviders == {ProviderOrder[i] : i \in 1..Len(ProviderOrder)}

\* searchConfig.providers: the enable flags (openrouter has no entry)
searchConfigProviders == [tavily |-> FALSE, exa |-> TRUE, google |-> TRUE]

ProviderEnabled(p) == p \in DOMAIN searchConfigProviders /\ searchConfigProviders[p]

\* the adapters that hand the caller's AbortSignal to fetch
UsesSignal(p) == p \in {"tavily", "exa"}

PROVIDER_TIMEOUT == 15000
SEARCH_TIMEOUT == 30000
LLM_TIMEOUT == 30000
SEARCH_CACHE_TTL == 10 * 60 * 1000
DEFAULT_TTL == 5 * 60 * 1000
DEFAULT_MAX_RETRIES == 2
FETCH_MAX_RETRIES == 1
LLM_CACHE_TTL == 30 * 60 * 1000
CONCURRENCY_LIMIT == 2
LLM_SUBSET == 5
LLM_PROMPT_RESULTS == 3
MAX_LEVEL == 5

\* getAvailableProviders(false, 0.2)
MIN_PROVIDER_WEIGHT == <<1, 5>>

NoError == ""

\* the message of the AbortError fetch rejects with
AbortMessage == "This operation was aborted"

\* a URL string in parts: the scheme prefix, a "www." prefix, the rest
\* written in lower case, whether the string has upper-case letters in the
\* rest, and the number of trailing slashes
UrlString(scheme, www, rest, upper, slashes) ==
  [scheme |-> scheme, www |-> www, rest |-> rest, upper |-> upper, slashes |-> slashes]

Url(rest) == UrlString("https://", FALSE, rest, FALSE, 0)

\* the empty string
EmptyUrl == UrlString("", FALSE, "", FALSE, 0)

\* normalizeUrl: replace(/\/+$/, ""), replace(/^https?:\/\//, ""),
\* replace(/^www\./, ""), toLowerCase(), in this order; and a variant that
\* keeps the trailing slashes
normalizeUrl_keepSlash(u) ==
  [u EXCEPT !.scheme = IF @ \in {"http://", "https://"} THEN "" ELSE @,
            !.www = IF u.scheme \in {"", "http://", "https://"} THEN FALSE ELSE @,
            !.upper = FALSE]

normalizeUrl(u) ==
  [u EXCEPT !.slashes = 0,
            !.scheme = IF @ \in {"http://", "https://"} THEN "" ELSE @,
            !.www = IF u.scheme \in {"", "http://", "https://"} THEN FALSE ELSE @,
            !.upper = FALSE]

\* an item of an API response; score Zero stands for a missing score
Item(title, rest, score) == [title |-> title, url |-> Url(rest), score |-> score]

\* a SearchResult; knowledgeLevel 0 stands for undefined
SearchResult(title, url, score, provider, level) ==
  [title |-> title, url |-> url, score |-> score, provider |-> provider,
   knowledgeLevel |-> level]

\* mockTavilyResponse, mockExaResponse and mockGoogleResponse hold the same
\* ten items (the Google items carry no score); the query is "q"
MockResponse ==
  <<Item("The Fascinating World of q", "example.com/intro", Rat(95, 100)),
    Item("Hidden Secrets of q", "example.com/secrets", Rat(92, 100)),
    Item("The Evolution of q Through History", "example.com/history", Rat(88, 100)),
    Item("Revolutionary Approaches to q", "example.com/innovation", Rat(85, 100)),
    Item("The Dark Side of q", "example.com/controversies", Rat(82, 100)),
    Item("q and Its Intersection with Philosophy", "example.com/philosophy", Rat(79, 100)),
    Item("The Future of q: Predictions and Possibilities", "example.com/future", Rat(76, 100)),
    Item("q in Popular Culture", "example.com/culture", Rat(73, 100)),
    Item("Bizarre Anomalies in q Research", "example.com/anomalies", Rat(70, 100)),
    Item("The Forgotten Pioneers of q", "example.com/pioneers", Rat(67, 100))>>

generateMockResults ==
  <<SearchResult("The Fascinating World of q", Url("example.com/intro"), Rat(95, 100), "mock", 1),
    SearchResult("Hidden Secrets of q", Url("example.com/secrets"), Rat(92, 100), "mock", 2),
    SearchResult("Deep Dive into q", Url("example.com/deep-dive"), Rat(89, 100), "mock", 3),
    SearchResult("Expert Analysis of q", Url("example.com/expert"), Rat(85, 100), "mock", 4),
    SearchResult("Obscure Facts About q", Url("example.com/obscure"), Rat(82, 100), "mock", 5)>>

(***************************************************************************)
(* Search: inputs                                                          *)
(***************************************************************************)
\* what a provider's API answers: results, no results, or an HTTP error
HttpAnswers == {"ok", "empty", "429", "403", "500"}

\* the items of a live answer with results
LiveResponse(p) ==
  IF p = "exa"
    THEN <<Item("Alpha", "a.org/x", Rat(9, 10)), Item("Beta", "b.org", Zero)>>
  ELSE IF p = "google"
    THEN <<[title |-> "Alpha",
            url |-> UrlString("http://", TRUE, "a.org/x", FALSE, 1),
            score |-> Zero],
           Item("Gamma", "c.org", Zero)>>
  ELSE <<Item("Alpha", "a.org/x", Rat(7, 10)), Item("Delta", "d.org", Rat(6, 10))>>

\* a live answer ("unranked") whose items are not in the order of their
\* scores and name one page twice
UnrankedResponse(p) ==
  <<Item("Beta", "b.org", Rat(1, 2)),
    Item("Alpha", "a.org/x", Rat(9, 10)),
    [title |-> "Alpha", url |-> UrlString("https://", TRUE, "a.org/x", FALSE, 1),
     score |-> Rat(7, 10)]>>

\* the items of an answer without HTTP error
AnswerItems(p, a) ==
  IF a = "ok" THEN LiveResponse(p)
  ELSE IF a = "unranked" THEN UnrankedResponse(p)
  ELSE <<>>

\* what the model's completion is: a JSON array giving the i-th result of the
\* prompt the level levels[i] (0: no usable level for it), text without a JSON
\* array, or an exception
LlmReplies ==
  {[kind |-> "json", levels |-> <<5, 4, 3>>],
   [kind |-> "json", levels |-> <<0, 9, 1>>],
   [kind |-> "text", levels |-> <<>>],
   [kind |-> "error", levels |-> <<>>]}

\* the parameters of the call; a string that is part of a cache key is the
\* sequence of the pieces between its colons ("q:advanced:10" is
\* <<"q", "advanced", "10">>)
SearchParams ==
  [query : {<<"q">>}, searchDepth : {"advanced"}, model : {<<"m">>},
   maxResults : {1, 10}, useLLM : BOOLEAN, skipTavily : BOOLEAN, useCache : BOOLEAN]

\* the clock advances in steps of the provider timeout; a reply arrives
\* within a step, this long after the clock value
ReplyLatencies == {1000}

(***************************************************************************)
(* Search: provider adapters                                               *)
(***************************************************************************)
\* tavilySearch when its fetch gets answer a ("abort": the signal aborted it)
tavilySearch(a) ==
  LET thrown == IF a = "abort" THEN "AbortError"
                ELSE IF a \in {"403", "429"} THEN "RateLimitError"
                ELSE IF a = "500" THEN "Error"
                ELSE NoError
  IN  IF thrown = NoError
        THEN [error |-> NoError, items |-> AnswerItems("tavily", a)]
      ELSE IF thrown = "RateLimitError" THEN [error |-> NoError, items |-> MockResponse]
      ELSE IF thrown = "AbortError" THEN [error |-> "AbortError", items |-> <<>>]
      ELSE [error |-> NoError, items |-> MockResponse]

exaSearch(a) ==
  LET thrown == IF a = "abort" THEN "AbortError"
                ELSE IF a \in {"403", "429", "500"} THEN "Error"
                ELSE NoError
  IN  IF thrown = NoError
        THEN [error |-> NoError, items |-> AnswerItems("exa", a)]
      ELSE IF thrown = "AbortError" THEN [error |-> "AbortError", items |-> <<>>]
      ELSE [error |-> NoError, items |-> MockResponse]

\* googleSearch passes no signal to fetch and catches every error
googleSearch(a) ==
  IF a \in {"429", "403"} THEN [error |-> NoError, items |-> MockResponse]
  ELSE IF a = "500" THEN [error |-> NoError, items |-> MockResponse]
  ELSE [error |-> NoError, items |-> AnswerItems("google", a)]

\* withRetry's shouldRetry for the error an adapter threw
shouldRetry(p, error) ==
  IF p = "tavily" THEN error # "RateLimitError"
  ELSE error \notin {"AbortError", "TimeoutError"}

\* fetchTavilyResults, fetchExaResults, fetchGoogleResults: the results or the
\* error, and what is reported to the Router.  A retried attempt runs under
\* the same aborted signal and fails as the first did.
fetchProviderResults(p, a) ==
  LET r == IF p = "tavily" THEN tavilySearch(a)
           ELSE IF p = "exa" THEN exaSearch(a)
           ELSE googleSearch(a)
  IN  IF r.error # NoError
        THEN [error |-> r.error, results |-> <<>>, report |-> "failure",
              isRateLimit |-> (p = "tavily" /\ r.error = "RateLimitError"),
              attempts |-> IF shouldRetry(p, r.error) THEN 2 ELSE 1]
      ELSE IF Len(r.items) = 0
        THEN [error |-> NoError, results |-> <<>>, report |-> "none",
              isRateLimit |-> FALSE, attempts |-> 1]
      ELSE [error |-> NoError,
            results |-> [i \in 1..Len(r.items) |->
                           SearchResult(r.items[i].title, r.items[i].url,
                                        IF p = "google" THEN Rat(8, 10)
                                        ELSE IF r.items[i].score = Zero THEN Rat(1, 2)
                                        ELSE r.items[i].score,
                                        p, 0)],
            report |-> "success", isRateLimit |-> FALSE, attempts |-> 1]

(***************************************************************************)
(* Search: knowledge levels, LLM enhancement, merge, cache                 *)
(***************************************************************************)
\* Math.min(5, Math.ceil((index + 1) / 3)) for the i-th result, i = index + 1
algorithmicLevel(i) ==
  IF (i + 2) \div 3 < MAX_LEVEL THEN (i + 2) \div 3 ELSE MAX_LEVEL

algorithmicLevels(results) ==
  [i \in 1..Len(results) |-> [results[i] EXCEPT !.knowledgeLevel = algorithmicLevel(i)]]

\* Map.get on a Map filled by set(title, level) for each entry in turn
MapGet(entries, title) ==
  LET js == {j \in 1..Len(entries) : entries[j].title = title}
  IN  IF js = {} THEN 0 ELSE entries[CHOOSE j \in js : \A k \in js : k <= j].level

\* results.map: the mapped level, or the algorithmic one if that is falsy
withLevels(results, entries) ==
  [i \in 1..Len(results) |->
     [results[i] EXCEPT !.knowledgeLevel =
        IF MapGet(entries, results[i].title) # 0 THEN MapGet(entries, results[i].title)
        ELSE algorithmicLevel(i)]]

\* enhanceResultsWithLLM once the completion call has ended with reply
enhanceResultsWithLLM(results, reply) ==
  LET sent == Take(results, LLM_PROMPT_RESULTS)
      entries == [j \in 1..Len(sent) |-> [title |-> sent[j].title, level |-> reply.levels[j]]]
  IN  IF reply.kind = "json" /\ Len(sent) > 0 THEN withLevels(results, entries)
      ELSE algorithmicLevels(results)

\* comprehensiveSearch applying the enhanced subset to allResults
applyEnhancement(allResults, enhanced) ==
  withLevels(allResults,
             [j \in 1..Len(enhanced) |->
                [title |-> enhanced[j].title, level |-> enhanced[j].knowledgeLevel]])

\* result-merger: the default providerWeights
providerWeights(p) ==
  IF p = "tavily" THEN One
  ELSE IF p = "exa" THEN Rat(9, 10)
  ELSE IF p = "google" THEN Rat(8, 10)
  ELSE Rat(1, 2)

\* resultsByProvider is a list of [provider, results] in insertion order
RECURSIVE flatten(_)
flatten(rbp) ==
  IF rbp = <<>> THEN <<>>
  ELSE [i \in 1..Len(Head(rbp).results) |->
          [Head(rbp).results[i] EXCEPT
             !.score = RMul(IF @ = Zero THEN Rat(1, 2) ELSE @, providerWeights(Head(rbp).provider)),
             !.provider = Head(rbp).provider]]
       \o flatten(Tail(rbp))

\* the first result of every normalized URL, results without a URL left
\* out, knowledgeLevel defaulting to 1
RECURSIVE dedupe(_, _)
dedupe(results, seen) ==
  IF results = <<>> THEN <<>>
  ELSE IF Head(results).url = EmptyUrl THEN dedupe(Tail(results), seen)
  ELSE IF normalizeUrl(Head(results).url) \in seen THEN dedupe(Tail(results), seen)
  ELSE <<[Head(results) EXCEPT !.knowledgeLevel = IF @ = 0 THEN 1 ELSE @]>>
       \o dedupe(Tail(results), seen \cup {normalizeUrl(Head(results).url)})

\* Array.prototype.sort with (a, b) => b.score - a.score: stable, highest first
RECURSIVE InsertByScore(_, _)
InsertByScore(sorted, r) ==
  IF sorted = <<>> THEN <<r>>
  ELSE IF RLt(Head(sorted).score, r.score) THEN <<r>> \o sorted
  ELSE <<Head(sorted)>> \o InsertByScore(Tail(sorted), r)

RECURSIVE SortByScore(_)
SortByScore(seq) ==
  IF seq = <<>> THEN <<>>
  ELSE InsertByScore(SortByScore(SubSeq(seq, 1, Len(seq) - 1)), seq[Len(seq)])

ensureKnowledgeLevels(results) ==
  LET n == Len(results)
      ceil5(i) == (5 * (i - 1) + n - 1) \div n
      level(i) == IF ceil5(i) < 1 THEN 1 ELSE IF ceil5(i) > MAX_LEVEL THEN MAX_LEVEL ELSE ceil5(i)
  IN  [i \in 1..n |-> IF results[i].knowledgeLevel > 0 THEN results[i]
                      ELSE [results[i] EXCEPT !.knowledgeLevel = level(i)]]

mergeProviderResults(rbp) ==
  ensureKnowledgeLevels(SortByScore(dedupe(flatten(rbp), {})))

\* resultsByProvider[provider] = results
PutResults(rbp, provider, results) ==
  IF \E i \in 1..Len(rbp) : rbp[i].provider = provider
  THEN [i \in 1..Len(rbp) |-> IF rbp[i].provider = provider
                              THEN [provider |-> provider, results |-> results] ELSE rbp[i]]
  ELSE Append(rbp, [provider |-> provider, results |-> results])

\* MemoryCache: a map key -> [value, expiry]
EmptyCache == [search |-> <<>>, llm |-> <<>>]

\* MemoryCache.get finds an entry that has not expired; and a get that
\* never finds one
CacheHit_never(C, key, t) == FALSE

CacheHit(C, key, t) == key \in DOMAIN C /\ ~(t > C[key].expiry)

\* MemoryCache.get deletes the entry it finds expired
CacheAfterGet(C, key, t) ==
  IF key \in DOMAIN C /\ t > C[key].expiry
  THEN [k \in DOMAIN C \ {key} |-> C[k]]
  ELSE C

\* MemoryCache.cleanup
CacheCleanup(C, t) == [k \in {j \in DOMAIN C : ~(t > C[j].expiry)} |-> C[k]]

\* MemoryCache.set; and a set that stores the entry as already due
CacheSet_noTtl(C, key, value, ttl, t) ==
  [k \in DOMAIN C \cup {key} |-> IF k = key THEN [value |-> value, expiry |-> t] ELSE C[k]]

CacheSet(C, key, value, ttl, t) ==
  [k \in DOMAIN C \cup {key} |-> IF k = key THEN [value |-> value, expiry |-> t + ttl] ELSE C[k]]

\* `search:${query}:${searchDepth}:${maxResults}:${model}:${useLLM}:${skipTavily}`
\* as the sequence of the pieces between its colons
SearchCacheKey(params) ==
  <<"search">> \o params.query \o <<params.searchDepth, ToString(params.maxResults)>>
    \o params.model \o <<IF params.useLLM THEN "true" ELSE "false",
                          IF params.skipTavily THEN "true" ELSE "false">>

\* `llm-enhance:${JSON.stringify(args)}`
LlmCacheKey(results, params) == [results |-> results, query |-> params.query, model |-> params.model]

(***************************************************************************)
(* Search: the state of a call of comprehensiveSearch                      *)
(***************************************************************************)
\* null, and an array slot not yet assigned
Null == [provider |-> "", results |-> <<>>]
Unset == [provider |-> "?", results |-> <<>>]

\* an adapter call: "race" while fetchResults awaits it under withTimeout,
\* "orphan" once the timeout has won and the call runs on unobserved; inTime
\* (history) when it ended before the timeout of its withTimeout; report
\* (history) what its fetch wrapper recorded in the Router
NoAdapterCall ==
  [phase |-> "none", start |-> 0, index |-> 0, worker |-> 0, answer |-> "", inTime |-> FALSE,
   report |-> "none"]

\* the enhancement call; output (history) is what it returned to the search
NoLlmCall == [phase |-> "none", start |-> 0, input |-> <<>>, memo |-> FALSE, output |-> <<>>]

NoResponse == [results |-> <<>>, providers |-> <<>>, searchId |-> 0, fromCache |-> FALSE]

NoSearch ==
  [pc |-> "idle",
   params |-> [query |-> <<"q">>, searchDepth |-> "advanced", model |-> <<"m">>,
               maxResults |-> 10, useLLM |-> TRUE, skipTavily |-> FALSE, useCache |-> TRUE],
   aborted |-> FALSE, startTime |-> 0, timer |-> "none",
   availableProviders |-> <<>>, currentIndex |-> 1,
   worker |-> [w \in 1..CONCURRENCY_LIMIT |-> "none"],
   call |-> [p \in AllProviders |-> NoAdapterCall],
   searchResults |-> <<>>, providersUsed |-> <<>>, resultsByProvider |-> <<>>,
   allResults |-> <<>>, llm |-> NoLlmCall,
   response |-> NoResponse, outcome |-> "pending"]

\* no earlier call of comprehensiveSearch
NoLast == [count |-> 0, params |-> NoSearch.params, response |-> NoResponse, stored |-> {}]

\* no call of withRetry; calls (history) holds the invocations of the
\* operation that have settled, settled what withRetry returned or threw
NoRetry ==
  [caller |-> "default", maxRetries |-> 0, attempt |-> 0, phase |-> "none", calls |-> <<>>,
   settled |-> ""]

\* no call of mergeProviderResults
NoMerge == [phase |-> "none", input |-> <<>>, output |-> <<>>]

\* no call of withConcurrencyLimit; no cache operation (written: key -> the
\* last set of the key that no set, delete or clear has replaced)
NoPool ==
  [pc |-> "none", items |-> <<>>, concurrency |-> 0, currentIndex |-> 0, inflight |-> {},
   started |-> <<>>, completed |-> <<>>, failed |-> {}, results |-> <<>>, returned |-> <<>>,
   error |-> -1]
NoCacheOp == [op |-> "none", key |-> "", t |-> 0, result |-> "null", written |-> <<>>]

\* provider-router: providerStatuses as the module is loaded; rateLimit is
\* whether lastErrorMessage contains "rate limit"
routerStatuses ==
  [p \in AllProviders |->
     [failureCount |-> 0, lastFailureTime |-> NoTime, weight |-> One, isDeprecated |-> FALSE,
      rateLimit |-> FALSE]]

\* no request: the module state of the provider-router, and no handler running
NoRequest ==
  [pc |-> "none", startTime |-> 0, abortTimer |-> "none", aborted |-> FALSE,
   searchTimer |-> "none", providerStatuses |-> routerStatuses,
   availableProviders |-> <<>>, index |-> 1,
   call |-> [p \in AllProviders |-> [phase |-> "none", start |-> 0]],
   allResults |-> <<>>, providersUsed |-> <<>>, resultsByProvider |-> <<>>,
   llm |-> [phase |-> "none", start |-> 0],
   status |-> 0, providers |-> <<>>]

\* no call of a memoized function; a scheduler without tasks
\* (calls: one record per call in the order of the calls; completed: the
\* calls whose invocation of the function has settled, in that order)
NoMemo == [calls |-> <<>>, completed |-> <<>>]
TaskIds == {"a", "b"}

\* (objects: the task objects created so far; tasks: the Map, an id to the
\* index of its task object or 0; order: the ids in the Map's insertion order;
\* runs: the calls of task functions; ticks: the calls of checkTasks)
NoScheduler ==
  [running |-> FALSE, objects |-> <<>>, tasks |-> [id \in TaskIds |-> 0],
   order |-> <<>>, runs |-> <<>>, ticks |-> <<>>]

UtilIdle ==
  /\ req = NoRequest
  /\ pool = NoPool
  /\ cacheOp = NoCacheOp
  /\ memo = NoMemo
  /\ sched = NoScheduler



(***************************************************************************)
(* Router: state machine                                                   *)
(***************************************************************************)
Idle == [pending |-> FALSE, stale |-> FALSE, dep |-> FALSE]

NoCall == [called |-> FALSE, inc |-> FALSE, mw |-> Zero, list |-> <<>>]

Elems(seq) == {seq[i] : i \in 1..Len(seq)}

\* a pending health check keeps the status object it captured; once the
\* table entry is replaced by a new object it reads the old one
MarkStale(h, oldDeprecated) ==
  IF h.pending /\ ~h.stale THEN [pending |-> TRUE, stale |-> TRUE, dep |-> oldDeprecated]
  ELSE h

\* the checks runHealthChecks starts: the synchronous part of each callback
StartChecks(S, t) ==
  [p \in DOMAIN S |->
     IF S[p].healthCheckStatus = "passing" /\ ~S[p].isDeprecated THEN Idle
     ELSE IF S[p].lastFailureTime # NoTime /\ t - S[p].lastFailureTime < MIN_COOLDOWN THEN Idle
     ELSE [pending |-> TRUE, stale |-> FALSE, dep |-> FALSE]]

\* hc after checkProviderRecovery replaced the entries of the providers it reset
StaleAfter(H, S, S2) ==
  [p \in DOMAIN S |-> IF S2[p] # S[p] THEN MarkStale(H[p], S[p].isDeprecated) ELSE H[p]]

\* the module state of the Router as one value
Router ==
  [st |-> st, hc |-> hc, consec |-> consec, rlTime |-> rlTime,
   lastHealthCheckTime |-> lastHealthCheckTime]

SetRouter(R) ==
  /\ st' = R.st
  /\ hc' = R.hc
  /\ consec' = R.consec
  /\ rlTime' = R.rlTime
  /\ lastHealthCheckTime' = R.lastHealthCheckTime

\* the Router after recordProviderFailure(p, error, isRateLimit, responseTime) at time t
RouterFailure(R, p, msg, isRateLimit, rt, t) ==
  [R EXCEPT !.st[p] = recordProviderFailure(R.st[p], msg, isRateLimit, rt, t),
            !.consec[p] = IF isRateLimit THEN 0 ELSE IF @ < 3 THEN @ + 1 ELSE 3,
            !.rlTime[p] = IF isRateLimit THEN t ELSE @]

\* the Router after recordProviderSuccess(p, responseTime)
RouterSuccess(R, p, rt) ==
  [R EXCEPT !.st[p] = recordProviderSuccess(R.st[p], rt),
            !.hc[p] = IF R.st[p].isDeprecated THEN MarkStale(@, TRUE) ELSE @,
            !.consec[p] = 0]

\* the Router after checkProviderRecovery of every provider in ps at time t
RouterQuery(R, ps, t) ==
  LET S2 == Recovered(R.st, ps, t)
  IN  [R EXCEPT !.st = S2,
                !.hc = StaleAfter(R.hc, R.st, S2),
                !.consec = [p \in DOMAIN R.st |-> IF S2[p] # R.st[p] THEN 0 ELSE R.consec[p]]]

\* the Router after the synchronous part of runHealthChecks() at time t
RouterRunHealthChecks(R, t) ==
  IF t - R.lastHealthCheckTime < HEALTH_CHECK_INTERVAL THEN R
  ELSE [R EXCEPT !.lastHealthCheckTime = t, !.hc = StartChecks(R.st, t)]

\* the Router after getAvailableProviders at time t: health checks are started
\* when due, then every provider is checked for recovery
RouterGetAvailable(R, t) ==
  LET R1 == IF t - R.lastHealthCheckTime > HEALTH_CHECK_INTERVAL
            THEN RouterRunHealthChecks(R, t) ELSE R
  IN  RouterQuery(R1, DOMAIN R.st, t)

RouterInit ==
  /\ st = [p \in ProviderName |-> InitialStatus]
  /\ now = StartTime
  /\ lastHealthCheckTime = 0
  /\ hc = [p \in ProviderName |-> Idle]
  /\ ret = NoCall
  /\ consec = [p \in ProviderName |-> 0]
  /\ rlTime = [p \in ProviderName |-> NoTime]
  /\ steps = 0
  /\ srch = NoSearch
  /\ memoryCache = EmptyCache
  /\ merger = NoMerge
  /\ last = NoLast
  /\ retry = NoRetry
  /\ UtilIdle

RecordFailure(p, msg, isRateLimit, rt) ==
  /\ steps < MaxSteps
  /\ SetRouter(RouterFailure(Router, p, msg, isRateLimit, rt, now))
  /\ ret' = NoCall
  /\ steps' = steps + 1
  /\ UNCHANGED <<now, searchVars>>

RecordSuccess(p, rt) ==
  /\ steps < MaxSteps
  /\ SetRouter(RouterSuccess(Router, p, rt))
  /\ ret' = NoCall
  /\ steps' = steps + 1
  /\ UNCHANGED <<now, searchVars>>

\* Date.now() advances; the health-check continuations are microtasks and
\* run before any timer or I/O callback, so no time passes while one is pending
Tick(d) ==
  /\ steps < MaxSteps
  /\ \A p \in DOMAIN hc : ~hc[p].pending
  /\ now' = now + d
  /\ steps' = steps + 1
  /\ ret' = NoCall
  /\ UNCHANGED <<st, lastHealthCheckTime, hc, consec, rlTime, searchVars>>

\* runHealthChecks() called directly (the task scheduler does)
RunHealthChecks ==
  /\ steps < MaxSteps
  /\ ~(now - lastHealthCheckTime < HEALTH_CHECK_INTERVAL)
  /\ SetRouter(RouterRunHealthChecks(Router, now))
  /\ ret' = NoCall
  /\ steps' = steps + 1
  /\ UNCHANGED <<now, searchVars>>

\* the continuation of one provider's callback after the await
HealthCheckDone(p, isHealthy) ==
  /\ hc[p].pending
  /\ LET dep == IF hc[p].stale THEN hc[p].dep ELSE st[p].isDeprecated
     IN  /\ st' = [st EXCEPT ![p] =
                    IF isHealthy /\ dep THEN resetProviderStatus(st[p], <<3, 10>>)
                    ELSE IF hc[p].stale THEN st[p]
                    ELSE IF isHealthy THEN [st[p] EXCEPT !.healthCheckStatus = "passing"]
                    ELSE IF ~dep THEN [st[p] EXCEPT !.healthCheckStatus = "warning"]
                    ELSE st[p]]
         /\ consec' = IF isHealthy /\ dep THEN [consec EXCEPT ![p] = 0] ELSE consec
  /\ hc' = [hc EXCEPT ![p] = Idle]
  /\ ret' = NoCall
  /\ UNCHANGED <<now, lastHealthCheckTime, rlTime, steps, searchVars>>

GetAvailableProviders(includeDeprecated, minWeight) ==
  LET R2 == RouterGetAvailable(Router, now)
  IN  /\ SetRouter(R2)
      /\ ret' = [called |-> TRUE, inc |-> includeDeprecated, mw |-> minWeight,
                 list |-> getAvailableProviders(R2.st, includeDeprecated, minWeight)]
      /\ UNCHANGED <<now, steps, searchVars>>

\* getAllProviderStatuses (ps = every provider), getProviderWeight and
\* isProviderDeprecated (ps = {p}): checkProviderRecovery, then a read
Query(ps) ==
  /\ SetRouter(RouterQuery(Router, ps, now))
  /\ ret' = NoCall
  /\ UNCHANGED <<now, steps, searchVars>>

GetAllProviderStatuses == Query(ProviderName)
GetProviderWeight(p) == Query({p})
IsProviderDeprecated(p) == Query({p})

Next ==
  \/ \E p \in ProviderName, m \in ErrorMessages, rl \in BOOLEAN, rt \in FailureResponseTimes :
       RecordFailure(p, m, rl, rt)
  \/ \E p \in ProviderName, rt \in ResponseTimes : RecordSuccess(p, rt)
  \/ \E d \in TickSteps : Tick(d)
  \/ RunHealthChecks
  \/ \E p \in ProviderName, h \in BOOLEAN : HealthCheckDone(p, h)
  \/ \E inc \in BOOLEAN, mw \in MinWeights : GetAvailableProviders(inc, mw)
  \/ GetAllProviderStatuses
  \/ \E p \in ProviderName : GetProviderWeight(p)
  \/ \E p \in ProviderName : IsProviderDeprecated(p)

Spec == RouterInit /\ [][Next]_vars

TypeOK ==
  /\ \A p \in ProviderName :
       /\ st[p].failureCount >= 0
       /\ st[p].weight[2] > 0
       /\ st[p].isDeprecated => st[p].lastFailureTime # NoTime
  /\ now >= StartTime

(***************************************************************************)
(* Search: the steps of comprehensiveSearch                                *)
(***************************************************************************)
\* the search, the Router and the cache as one value
World == [s |-> srch, R |-> Router, c |-> memoryCache]

SetWorld(W) ==
  /\ srch' = W.s
  /\ SetRouter(W.R)
  /\ memoryCache' = W.c
  /\ UNCHANGED <<merger, last, retry, utilVars>>

\* a catch clause that handles the error, so that nothing propagates; and one
\* that lets the error through
Catch_rethrow(error) == error

Catch(error) == NoError

\* the promise comprehensiveSearch returned rejects
Reject(W) ==
  [W EXCEPT !.s.pc = "done", !.s.outcome = "rejected", !.s.timer = "none",
            !.s.call = [p \in AllProviders |->
                          IF @[p].phase = "race" THEN [@[p] EXCEPT !.phase = "orphan"] ELSE @[p]],
            !.s.llm.phase = IF @ = "race" THEN "orphan" ELSE @]

\* the callback of the search timer; and one that falls back to the mock
\* results whatever has been collected
searchTimeoutCallback_always(s) ==
  [s EXCEPT !.timer = "fired",
            !.allResults = generateMockResults,
            !.providersUsed = Append(@, "mock")]

searchTimeoutCallback(s) ==
  [s EXCEPT !.timer = "fired",
            !.allResults = IF Len(@) = 0 THEN generateMockResults ELSE @,
            !.providersUsed = IF Len(s.allResults) = 0 THEN Append(@, "mock") ELSE @]

\* the tail of comprehensiveSearch: merge, truncate, respond, cache
\* (clearTimeout leaves a timer that has fired as it is)
finish(W, t) ==
  LET s == W.s
      merged == IF Len(s.resultsByProvider) > 1 THEN mergeProviderResults(s.resultsByProvider)
                ELSE s.allResults
      response == [results |-> Take(merged, s.params.maxResults),
                   providers |-> s.providersUsed, searchId |-> t, fromCache |-> FALSE]
  IN  [W EXCEPT !.s.timer = IF @ = "fired" THEN "fired" ELSE "none",
                !.s.allResults = merged,
                !.s.response = response,
                !.s.pc = "done",
                !.s.outcome = "resolved",
                !.R = RouterQuery(W.R, AllProviders, t),
                !.c.search = IF s.params.useCache
                             THEN CacheSet(@, SearchCacheKey(s.params), response, SEARCH_CACHE_TTL, t)
                             ELSE @]

\* the enhancement returned: levels applied, success reported for openrouter
enhanced(W, enhancedResults, t) ==
  finish([W EXCEPT !.s.allResults = applyEnhancement(@, enhancedResults),
                   !.R = RouterSuccess(@, "openrouter", 0)], t)

\* the enhancement threw: the inner catch, and the outer one around it
enhancementFailed(W, error, t) ==
  LET W1 == [W EXCEPT !.s.allResults = algorithmicLevels(@),
                      !.R = IF error \in {"AbortError", "TimeoutError"} THEN @
                            ELSE RouterFailure(@, "openrouter", "", FALSE, 0, t)]
  IN  IF Catch(error) = NoError THEN finish(W1, t)
      ELSE IF Catch(Catch(error)) = NoError THEN finish(W1, t)
      ELSE Reject(W1)

\* isProviderDeprecated after its checkProviderRecovery has run (R is the
\* Router after it); and a test that never finds a provider deprecated
isProviderDeprecated_never(R, p) == FALSE

isProviderDeprecated(R, p) == R.st[p].isDeprecated

\* the LLM enhancement section
enhancement(W, t) ==
  LET s == W.s
      R1 == RouterQuery(W.R, {"openrouter"}, t)
      input == Take(s.allResults, LLM_SUBSET)
  IN  IF ~(s.params.useLLM /\ Len(s.allResults) > 0) THEN finish(W, t)
      ELSE IF isProviderDeprecated(R1, "openrouter")
        THEN finish([W EXCEPT !.R = R1, !.s.allResults = algorithmicLevels(@)], t)
      ELSE IF s.params.useCache /\ CacheHit(W.c.llm, LlmCacheKey(input, s.params), t)
        THEN enhanced([W EXCEPT !.R = R1], W.c.llm[LlmCacheKey(input, s.params)].value, t)
      ELSE [W EXCEPT !.R = R1,
                     !.c.llm = IF s.params.useCache
                               THEN CacheAfterGet(@, LlmCacheKey(input, s.params), t) ELSE @,
                     !.s.pc = "llm",
                     !.s.llm = [phase |-> "race", start |-> t, input |-> input,
                                memo |-> s.params.useCache, output |-> <<>>]]

\* the loop over searchResults.filter(Boolean)
RECURSIVE gather(_, _)
gather(s, i) ==
  IF i > Len(s.searchResults) THEN s
  ELSE IF s.searchResults[i] \in {Null, Unset} THEN gather(s, i + 1)
  ELSE gather([s EXCEPT !.providersUsed = Append(@, s.searchResults[i].provider),
                        !.resultsByProvider = PutResults(@, s.searchResults[i].provider,
                                                         s.searchResults[i].results),
                        !.allResults = @ \o s.searchResults[i].results], i + 1)

\* the fallback to mock data; and one without effect
mockFallback_none(s) == s

mockFallback(s) ==
  IF Len(s.allResults) = 0
  THEN [s EXCEPT !.allResults = generateMockResults,
                 !.resultsByProvider = PutResults(@, "mock", generateMockResults),
                 !.providersUsed = Append(@, "mock")]
  ELSE s

\* the provider phase ended, with the error withConcurrencyLimit rejected
\* with (NoError: none)
afterFetch(W, error, t) ==
  IF error # NoError /\ Catch(error) # NoError THEN Reject(W)
  ELSE enhancement([W EXCEPT !.s = mockFallback(IF error = NoError THEN gather(@, 1) ELSE @)], t)

\* withConcurrencyLimit's processNext for worker w: tasks are taken until one
\* awaits a provider call or none is left
RECURSIVE processNext(_, _, _)
processNext(s, w, t) ==
  IF s.currentIndex > Len(s.availableProviders) THEN [s EXCEPT !.worker[w] = "exited"]
  ELSE LET i == s.currentIndex
           p == s.availableProviders[i]
           s1 == [s EXCEPT !.currentIndex = i + 1]
       IN  IF ~ProviderEnabled(p) THEN processNext([s1 EXCEPT !.searchResults[i] = Null], w, t)
           ELSE [s1 EXCEPT !.call[p] = [phase |-> "race", start |-> t, index |-> i,
                                        worker |-> w, answer |-> "", inTime |-> FALSE,
                                        report |-> "none"],
                           !.worker[w] = "awaiting"]

RECURSIVE startWorkers(_, _, _)
startWorkers(s, w, t) ==
  IF w > CONCURRENCY_LIMIT \/ w > Len(s.availableProviders) THEN s
  ELSE startWorkers(processNext(s, w, t), w + 1, t)

\* the provider phase goes on after a change, or ends
afterWorkers(W, t) ==
  IF \A w \in 1..CONCURRENCY_LIMIT : W.s.worker[w] = "exited" THEN afterFetch(W, NoError, t)
  ELSE W

\* fetchResults: what the callback resolves with once withTimeout settled
\* with outcome o, or the error it rejects with; and a callback without the
\* try around the provider call
fetchResults_noTry(p, o) ==
  IF o.error # NoError THEN [error |-> o.error, value |-> Null]
  ELSE IF Len(o.results) > 0
    THEN [error |-> NoError, value |-> [provider |-> p, results |-> o.results]]
  ELSE [error |-> NoError, value |-> Null]

fetchResults(p, o) ==
  IF o.error # NoError THEN [error |-> Catch(o.error), value |-> Null]
  ELSE IF Len(o.results) > 0
    THEN [error |-> NoError, value |-> [provider |-> p, results |-> o.results]]
  ELSE [error |-> NoError, value |-> Null]

\* withTimeout around the call of p settled with outcome o
settleFetch(W, p, o, t) ==
  LET f == fetchResults(p, o)
      c == W.s.call[p]
  IN  IF W.s.pc # "fetch" THEN W
      ELSE IF f.error # NoError THEN afterFetch(W, f.error, t)
      ELSE afterWorkers([W EXCEPT !.s = processNext([@ EXCEPT !.searchResults[c.index] = f.value],
                                                    c.worker, t)], t)

\* the adapter call of p ended with answer a, rt after it began; and one
\* whose call was cancelled when its withTimeout rejected
adapterDone_cancelled(W, p, a, rt, t) ==
  LET o == fetchProviderResults(p, a)
      W1 == [W EXCEPT !.s.call[p].phase = "done", !.s.call[p].answer = a,
                      !.s.call[p].inTime = rt < PROVIDER_TIMEOUT,
                      !.s.call[p].report = o.report,
                      !.R = IF o.report = "success" THEN RouterSuccess(@, p, rt)
                            ELSE IF o.report = "failure"
                              THEN RouterFailure(@, p, AbortMessage, o.isRateLimit, rt, t)
                            ELSE @]
  IN  IF W.s.call[p].phase = "race" THEN settleFetch(W1, p, o, t)
      ELSE [W EXCEPT !.s.call[p].phase = "done", !.s.call[p].answer = a,
                     !.s.call[p].report = o.report]

adapterDone(W, p, a, rt, t) ==
  LET o == fetchProviderResults(p, a)
      race == W.s.call[p].phase = "race"
      W1 == [W EXCEPT !.s.call[p].phase = "done", !.s.call[p].answer = a,
                      !.s.call[p].inTime = rt < PROVIDER_TIMEOUT,
                      !.s.call[p].report = o.report,
                      !.R = IF o.report = "success" THEN RouterSuccess(@, p, rt)
                            ELSE IF o.report = "failure"
                              THEN RouterFailure(@, p, AbortMessage, o.isRateLimit, rt, t)
                            ELSE @]
  IN  IF race THEN settleFetch(W1, p, o, t) ELSE W1

\* the caller's signal aborts: every fetch that carries it rejects
RECURSIVE abortCalls(_, _, _, _)
abortCalls(W, ps, latency, t) ==
  IF ps = <<>> THEN W
  ELSE IF UsesSignal(Head(ps)) /\ W.s.call[Head(ps)].phase \in {"race", "orphan"}
    THEN abortCalls(adapterDone(W, Head(ps), "abort",
                                t - W.s.call[Head(ps)].start + latency, t),
                    Tail(ps), latency, t)
  ELSE abortCalls(W, Tail(ps), latency, t)

(***************************************************************************)
(* Search: state machine                                                   *)
(***************************************************************************)
\* the module is loaded and the health check the task scheduler runs at
\* startup has found every provider healthy
SearchInit ==
  /\ st = [p \in AllProviders |-> [InitialStatus EXCEPT !.healthCheckStatus = "passing"]]
  /\ now = StartTime
  /\ lastHealthCheckTime = StartTime
  /\ hc = [p \in AllProviders |-> Idle]
  /\ ret = NoCall
  /\ consec = [p \in AllProviders |-> 0]
  /\ rlTime = [p \in AllProviders |-> NoTime]
  /\ steps = 0
  /\ srch = NoSearch
  /\ memoryCache = EmptyCache
  /\ merger = NoMerge
  /\ last = NoLast
  /\ retry = NoRetry
  /\ UtilIdle

\* another caller reports a rate-limit failure of p before the search
ProviderRateLimited(p) ==
  /\ srch.pc = "idle"
  /\ steps < MaxPriorFailures
  /\ RecordFailure(p, "Tavily API rate limit exceeded: Rate Limit", TRUE, 0)

\* comprehensiveSearch(params) up to its first await: the cache lookup, the
\* selection, and the start of the provider calls
StartSearch(params) ==
  /\ srch.pc = "idle"
  /\ LET key == SearchCacheKey(params)
         R1 == RouterGetAvailable(Router, now)
         list == getAvailableProviders(R1.st, FALSE, MIN_PROVIDER_WEIGHT)
         avail == IF params.skipTavily THEN SelectSeq(list, LAMBDA p : p # "tavily") ELSE list
         s0 == [NoSearch EXCEPT
                  !.pc = "fetch", !.params = params, !.startTime = now, !.timer = "armed",
                  !.availableProviders = avail,
                  !.searchResults = [i \in 1..Len(avail) |-> Unset],
                  !.worker = [w \in 1..CONCURRENCY_LIMIT |->
                                IF w <= Len(avail) THEN "ready" ELSE "exited"]]
     IN  IF params.useCache /\ CacheHit(memoryCache.search, key, now)
         THEN SetWorld([World EXCEPT
                          !.s = [NoSearch EXCEPT
                                   !.pc = "done", !.params = params, !.outcome = "resolved",
                                   !.response = [memoryCache.search[key].value
                                                   EXCEPT !.fromCache = TRUE]]])
         ELSE SetWorld(afterWorkers(
                [s |-> startWorkers(s0, 1, now),
                 R |-> R1,
                 c |-> [memoryCache EXCEPT
                          !.search = IF params.useCache THEN CacheAfterGet(@, key, now) ELSE @]],
                now))
  /\ ret' = NoCall
  /\ UNCHANGED <<now, steps>>

\* timers fire in the order of their due times; the search timer is the oldest
SearchTimerDue == srch.timer = "armed" /\ now >= srch.startTime + SEARCH_TIMEOUT

\* the API of p answers the adapter's fetch
HttpAnswer(p, a, latency) ==
  /\ srch.call[p].phase \in {"race", "orphan"}
  /\ srch.call[p].phase = "race" => now < srch.call[p].start + PROVIDER_TIMEOUT
  /\ SetWorld(adapterDone(World, p, a, now - srch.call[p].start + latency, now))
  /\ ret' = NoCall
  /\ UNCHANGED <<now, steps>>

\* withTimeout(..., 15000) around the call of p rejects
CallTimeout(p) ==
  /\ srch.call[p].phase = "race"
  /\ now >= srch.call[p].start + PROVIDER_TIMEOUT
  /\ ~(SearchTimerDue /\ srch.startTime + SEARCH_TIMEOUT <= srch.call[p].start + PROVIDER_TIMEOUT)
  /\ SetWorld(settleFetch([World EXCEPT !.s.call[p].phase = "orphan"], p,
                          [error |-> "TimeoutError", results |-> <<>>], now))
  /\ ret' = NoCall
  /\ UNCHANGED <<now, steps>>

\* the caller aborts the signal it passed
Abort(latency) ==
  /\ srch.pc \in {"fetch", "llm"}
  /\ ~srch.aborted
  /\ SetWorld(abortCalls([World EXCEPT !.s.aborted = TRUE], ProviderOrder, latency, now))
  /\ ret' = NoCall
  /\ UNCHANGED <<now, steps>>

\* the callback of the 30 second search timer
SearchTimeout ==
  /\ SearchTimerDue
  /\ \A p \in AllProviders :
       srch.call[p].phase = "race" =>
         srch.startTime + SEARCH_TIMEOUT <= srch.call[p].start + PROVIDER_TIMEOUT
  /\ srch' = searchTimeoutCallback(srch)
  /\ ret' = NoCall
  /\ UNCHANGED <<st, now, lastHealthCheckTime, hc, consec, rlTime, steps, memoryCache, merger, last, retry, utilVars>>

\* the completion call of enhanceResultsWithLLM ends
LlmReply(reply) ==
  /\ srch.llm.phase \in {"race", "orphan"}
  /\ srch.llm.phase = "race" => now < srch.llm.start + LLM_TIMEOUT
  /\ LET result == enhanceResultsWithLLM(srch.llm.input, reply)
         W1 == [World EXCEPT
                  !.s.llm.phase = "done",
                  !.s.llm.output = IF srch.llm.phase = "race" THEN result ELSE @,
                  !.c.llm = IF srch.llm.memo
                            THEN CacheSet(@, LlmCacheKey(srch.llm.input, srch.params), result,
                                          LLM_CACHE_TTL, now)
                            ELSE @]
     IN  SetWorld(IF srch.llm.phase = "race" THEN enhanced(W1, result, now) ELSE W1)
  /\ ret' = NoCall
  /\ UNCHANGED <<now, steps>>

\* withTimeout(..., 30000) around the enhancement rejects
LlmTimeout ==
  /\ srch.llm.phase = "race"
  /\ now >= srch.llm.start + LLM_TIMEOUT
  /\ ~SearchTimerDue
  /\ SetWorld(enhancementFailed([World EXCEPT !.s.llm.phase = "orphan"], "TimeoutError", now))
  /\ ret' = NoCall
  /\ UNCHANGED <<now, steps>>

\* Date.now() advances while the search awaits a call; a timer that is due
\* fires first
SearchTick ==
  /\ srch.pc \in {"fetch", "llm"}
  /\ ~SearchTimerDue
  /\ \A p \in AllProviders :
       srch.call[p].phase = "race" => now < srch.call[p].start + PROVIDER_TIMEOUT
  /\ srch.llm.phase = "race" => now < srch.llm.start + LLM_TIMEOUT
  /\ now' = now + PROVIDER_TIMEOUT
  /\ ret' = NoCall
  /\ UNCHANGED <<st, lastHealthCheckTime, hc, consec, rlTime, steps, searchVars>>

NextSearch ==
  \/ \E p \in AllProviders : ProviderRateLimited(p)
  \/ \E params \in SearchParams : StartSearch(params)
  \/ \E p \in AllProviders, a \in HttpAnswers, latency \in ReplyLatencies : HttpAnswer(p, a, latency)
  \/ \E p \in AllProviders : CallTimeout(p)
  \/ \E latency \in ReplyLatencies : Abort(latency)
  \/ SearchTimeout
  \/ \E reply \in LlmReplies : LlmReply(reply)
  \/ LlmTimeout
  \/ SearchTick

SpecSearch == SearchInit /\ [][NextSearch]_vars

(***************************************************************************)
(* Search: calls one after the other                                       *)
(***************************************************************************)
\* the answers of the provider APIs and of the model while the cache is
\* exercised: no call runs into a timeout
CacheAnswers == {"ok", "empty", "500"}

CacheReplies == LlmReplies

\* the parameters of the two calls: queries and model names with and
\* without colons
CacheParams ==
  [query : {<<"q">>, <<"q", "advanced", "10">>}, searchDepth : {"advanced"},
   model : {<<"m">>, <<"advanced", "10", "m">>},
   maxResults : {10}, useLLM : BOOLEAN, skipTavily : {FALSE}, useCache : BOOLEAN]

\* the caller has the response, every call the search left behind has
\* ended, and comprehensiveSearch is called again, after at most n calls
CallAgain(n) ==
  /\ srch.pc = "done"
  /\ last.count < n
  /\ \A p \in AllProviders : srch.call[p].phase \notin {"race", "orphan"}
  /\ srch.llm.phase \notin {"race", "orphan"}
  /\ last' = [count |-> last.count + 1, params |-> srch.params, response |-> srch.response,
              stored |-> IF srch.params.useCache /\ ~srch.response.fromCache
                         THEN last.stored \cup {srch.params} ELSE last.stored]
  /\ srch' = NoSearch
  /\ ret' = NoCall
  /\ UNCHANGED <<st, now, lastHealthCheckTime, hc, consec, rlTime, steps, memoryCache, merger, retry, utilVars>>

NextCache ==
  \/ \E params \in CacheParams : StartSearch(params)
  \/ \E p \in AllProviders, a \in CacheAnswers, latency \in ReplyLatencies : HttpAnswer(p, a, latency)
  \/ \E reply \in CacheReplies : LlmReply(reply)
  \/ CallAgain(1)

SpecCache == SearchInit /\ [][NextCache]_vars

\* searches whose caller may abort them and whose provider calls may run
\* into the timeout; the APIs answer with results or with none, so that no
\* failure of another kind is recorded
AbortParams ==
  [query : {<<"q">>}, searchDepth : {"advanced"}, model : {<<"m">>},
   maxResults : {10}, useLLM : {FALSE}, skipTavily : {FALSE}, useCache : {FALSE}]

AbortAnswers == {"ok", "empty"}

NextAborts ==
  \/ \E params \in AbortParams : StartSearch(params)
  \/ \E p \in AllProviders, a \in AbortAnswers, latency \in ReplyLatencies : HttpAnswer(p, a, latency)
  \/ \E p \in AllProviders : CallTimeout(p)
  \/ \E latency \in ReplyLatencies : Abort(latency)
  \/ SearchTick
  \/ CallAgain(MaxSearches - 1)

SpecAborts == SearchInit /\ [][NextAborts]_vars

\* a search whose providers answer in time, with items that may be out of
\* order
RankingParams ==
  [query : {<<"q">>}, searchDepth : {"advanced"}, model : {<<"m">>},
   maxResults : {2, 10}, useLLM : {FALSE, TRUE}, skipTavily : {FALSE}, useCache : {FALSE}]

RankingAnswers == {"ok", "empty", "unranked"}

NextRanking ==
  \/ \E params \in RankingParams : StartSearch(params)
  \/ \E p \in AllProviders, a \in RankingAnswers, latency \in ReplyLatencies :
       HttpAnswer(p, a, latency)
  \/ \E reply \in LlmReplies : LlmReply(reply)

SpecRanking == SearchInit /\ [][NextRanking]_vars

(***************************************************************************)
(* Merger: mergeProviderResults called on its own                          *)
(***************************************************************************)
\* URLs a provider may return: the same page written in three ways, another
\* page, and no URL
MergeUrls ==
  {UrlString("https://", FALSE, "example.com/x", TRUE, 1),
   UrlString("", FALSE, "example.com/x", FALSE, 0),
   UrlString("http://", TRUE, "example.com/x", FALSE, 0),
   UrlString("https://", FALSE, "example.com/y", FALSE, 0),
   EmptyUrl}

\* scores: Zero stands for a missing score
MergeScores == {Zero, Rat(9, 10)}

MergeProviders == {"exa", "google"}

MergeEntries == [provider : MergeProviders, url : MergeUrls, score : MergeScores]

MergeTitle(i) == "result " \o ToString(i)

\* resultsByProvider[provider].push(result), the key created when missing
AddResult(rbp, provider, result) ==
  IF \E i \in 1..Len(rbp) : rbp[i].provider = provider
  THEN [i \in 1..Len(rbp) |->
          IF rbp[i].provider = provider
          THEN [provider |-> provider, results |-> Append(rbp[i].results, result)]
          ELSE rbp[i]]
  ELSE Append(rbp, [provider |-> provider, results |-> <<result>>])

\* the map a list of entries [provider, url, score] makes: the i-th entry is
\* the result titled MergeTitle(i), the keys are in the order of first use
RECURSIVE GroupEntries(_, _, _)
GroupEntries(entries, i, rbp) ==
  IF i > Len(entries) THEN rbp
  ELSE GroupEntries(entries, i + 1,
                    AddResult(rbp, entries[i].provider,
                              SearchResult(MergeTitle(i), entries[i].url, entries[i].score,
                                           entries[i].provider, 0)))

MergeInputs ==
  {GroupEntries(entries, 1, <<>>) :
     entries \in UNION {[1..n -> MergeEntries] : n \in 0..MaxMergeResults}}

MergeInit ==
  /\ st = [p \in AllProviders |-> [InitialStatus EXCEPT !.healthCheckStatus = "passing"]]
  /\ now = StartTime
  /\ lastHealthCheckTime = StartTime
  /\ hc = [p \in AllProviders |-> Idle]
  /\ ret = NoCall
  /\ consec = [p \in AllProviders |-> 0]
  /\ rlTime = [p \in AllProviders |-> NoTime]
  /\ steps = 0
  /\ srch = NoSearch
  /\ memoryCache = EmptyCache
  /\ merger \in [phase : {"called"}, input : MergeInputs, output : {<<>>}]
  /\ last = NoLast
  /\ retry = NoRetry
  /\ UtilIdle

\* mergeProviderResults(resultsByProvider) returns
Merge ==
  /\ merger.phase = "called"
  /\ merger' = [merger EXCEPT !.phase = "returned", !.output = mergeProviderResults(merger.input)]
  /\ UNCHANGED <<routerVars, srch, memoryCache, last, retry, utilVars>>

NextMerge == Merge

SpecMerge == MergeInit /\ [][NextMerge]_vars

\* ensureKnowledgeLevels called on its own: lists sorted by score in which
\* every entry has a level (3) or none (0)
LevelInputs ==
  UNION {{[i \in 1..n |-> SearchResult("r", Url("r.org"), Rat(100 - i, 100), "exa", lv[i])] :
            lv \in [1..n -> {0, 3}]} : n \in 1..MaxLevelResults}

LevelsInit ==
  /\ st = [p \in AllProviders |-> [InitialStatus EXCEPT !.healthCheckStatus = "passing"]]
  /\ now = StartTime
  /\ lastHealthCheckTime = StartTime
  /\ hc = [p \in AllProviders |-> Idle]
  /\ ret = NoCall
  /\ consec = [p \in AllProviders |-> 0]
  /\ rlTime = [p \in AllProviders |-> NoTime]
  /\ steps = 0
  /\ srch = NoSearch
  /\ memoryCache = EmptyCache
  /\ \E results \in LevelInputs :
       merger = [phase |-> "levels", input |-> results, output |-> <<>>]
  /\ last = NoLast
  /\ retry = NoRetry
  /\ UtilIdle

\* ensureKnowledgeLevels(results) returns
EnsureLevels ==
  /\ merger.phase = "levels"
  /\ merger' = [merger EXCEPT !.phase = "leveled", !.output = ensureKnowledgeLevels(merger.input)]
  /\ UNCHANGED <<routerVars, srch, memoryCache, last, retry, utilVars>>

NextLevels == EnsureLevels

SpecLevels == LevelsInit /\ [][NextLevels]_vars

(***************************************************************************)
(* withRetry under the options of its callers                              *)
(***************************************************************************)
\* the callers: the three provider fetches, and a caller that passes
\* maxRetries only ("default")
RetryCallers == {"default", "tavily", "exa", "google"}

\* what an invocation of the operation ends with: a value, or an error of
\* this name
OperationOutcomes == {"ok", "AbortError", "TimeoutError", "RateLimitError", "Error"}

RetryInit ==
  /\ st = [p \in AllProviders |-> [InitialStatus EXCEPT !.healthCheckStatus = "passing"]]
  /\ now = StartTime
  /\ lastHealthCheckTime = StartTime
  /\ hc = [p \in AllProviders |-> Idle]
  /\ ret = NoCall
  /\ consec = [p \in AllProviders |-> 0]
  /\ rlTime = [p \in AllProviders |-> NoTime]
  /\ steps = 0
  /\ srch = NoSearch
  /\ memoryCache = EmptyCache
  /\ merger = NoMerge
  /\ last = NoLast
  /\ UtilIdle
  /\ \E caller \in RetryCallers, maxRetries \in 0..DEFAULT_MAX_RETRIES :
       /\ caller # "default" => maxRetries = FETCH_MAX_RETRIES
       /\ retry = [caller |-> caller, maxRetries |-> maxRetries, attempt |-> 0,
                   phase |-> "calling", calls |-> <<>>, settled |-> ""]

\* the catch clause of withRetry: rethrow, or wait and invoke again; and one
\* that allows one attempt more
withRetryCatch_extra(caller, attempt, maxRetries, error) ==
  IF attempt > maxRetries \/ ~shouldRetry(caller, error) THEN "rejected" ELSE "waiting"

withRetryCatch(caller, attempt, maxRetries, error) ==
  IF attempt >= maxRetries \/ ~shouldRetry(caller, error) THEN "rejected" ELSE "waiting"

\* operation(attempt) settles: withRetry returns its value, rethrows its
\* error, or goes on to wait for the retry delay
OperationSettles(outcome) ==
  /\ retry.phase = "calling"
  /\ LET phase == IF outcome = "ok" THEN "resolved"
                  ELSE withRetryCatch(retry.caller, retry.attempt, retry.maxRetries, outcome)
     IN  retry' = [retry EXCEPT
                     !.calls = Append(@, [attempt |-> retry.attempt, outcome |-> outcome]),
                     !.phase = phase,
                     !.settled = IF phase = "waiting" THEN "" ELSE outcome]
  /\ UNCHANGED <<routerVars, srch, memoryCache, merger, last, utilVars>>

\* the retry delay has passed: attempt++ and the operation is invoked again
RetryDelayElapsed ==
  /\ retry.phase = "waiting"
  /\ retry' = [retry EXCEPT !.attempt = @ + 1, !.phase = "calling"]
  /\ UNCHANGED <<routerVars, srch, memoryCache, merger, last, utilVars>>

NextRetry ==
  \/ \E outcome \in OperationOutcomes : OperationSettles(outcome)
  \/ RetryDelayElapsed

SpecRetry == RetryInit /\ [][NextRetry]_vars

(***************************************************************************)
(* Endpoint: GET of the search endpoint with the sequential                *)
(* comprehensiveSearch (search-service) and its provider-router            *)
(***************************************************************************)
\* the variables the utilities and the endpoint leave alone
quietVars == <<st, lastHealthCheckTime, hc, ret, consec, rlTime, steps, srch, merger, last, retry>>

ENDPOINT_TIMEOUT == 55000
COOLDOWN_PERIOD == 5 * 60 * 1000
DEFAULT_MAX_RESULTS == 10

\* the clock advances in steps of five seconds while the request waits
EndpointTicks == {5000}

\* provider-router: recordProviderFailure, recordProviderSuccess,
\* checkProviderRecovery (the thresholds are those of the enhanced router)
routerRecordProviderFailure(S, p, msg, isRateLimit, t) ==
  LET s1 == [S[p] EXCEPT !.failureCount = @ + 1, !.lastFailureTime = t,
                         !.rateLimit = IncludesRateLimit(msg)]
  IN  [S EXCEPT ![p] = IF isRateLimit \/ s1.failureCount >= FAILURE_THRESHOLD
                       THEN [s1 EXCEPT !.isDeprecated = TRUE, !.weight = Zero]
                       ELSE [s1 EXCEPT !.weight = RMax(Rat(1, 10), RMul(@, Rat(1, 2)))]]

routerRecordProviderSuccess(S, p) ==
  IF S[p].failureCount > 0 /\ ~S[p].isDeprecated
    THEN [S EXCEPT ![p].failureCount = @ - 1, ![p].weight = RMin(One, RAdd(@, Rat(1, 5)))]
  ELSE IF S[p].isDeprecated THEN [S EXCEPT ![p] = routerStatuses[p]]
  ELSE S

routerCheckProviderRecovery(S, p, t) ==
  IF ~S[p].isDeprecated \/ S[p].lastFailureTime \in {NoTime, 0} THEN S
  ELSE IF t - S[p].lastFailureTime >
            (IF S[p].rateLimit THEN RATE_LIMIT_COOLDOWN ELSE COOLDOWN_PERIOD)
    THEN [S EXCEPT ![p] = [routerStatuses[p] EXCEPT !.weight = Rat(1, 2)]]
  ELSE S

\* checkProviderRecovery for every provider, as getAvailableProviders and
\* getAllProviderStatuses do
RECURSIVE routerRecoverAll(_, _, _)
routerRecoverAll(S, ps, t) ==
  IF ps = <<>> THEN S
  ELSE routerRecoverAll(routerCheckProviderRecovery(S, Head(ps), t), Tail(ps), t)

\* the handler returns: comprehensiveSearch resolved (error = NoError) and the
\* body is built from its response, or it rejected and the catch clauses of
\* GET choose the status
respond(r, error, t) ==
  [r EXCEPT !.pc = "done",
            !.abortTimer = IF @ = "armed" THEN "cleared" ELSE @,
            !.searchTimer = IF error = NoError /\ @ = "armed" THEN "cleared" ELSE @,
            !.providerStatuses = IF error = NoError THEN routerRecoverAll(@, ProviderOrder, t)
                                 ELSE @,
            !.status = IF error = NoError THEN 200
                       ELSE IF error = "AbortError" THEN 504
                       ELSE 500,
            !.providers = IF error = NoError THEN r.providersUsed ELSE <<>>]

\* comprehensiveSearch after the provider loop: mock fallback, then the
\* enhancement (useLLM defaults to true) unless openrouter is deprecated
afterLoop(r, t) ==
  LET r1 == mockFallback(r)
      S1 == routerCheckProviderRecovery(r1.providerStatuses, "openrouter", t)
  IN  IF S1["openrouter"].isDeprecated
        THEN respond([r1 EXCEPT !.providerStatuses = S1,
                                !.allResults = algorithmicLevels(@)], NoError, t)
      ELSE [r1 EXCEPT !.providerStatuses = S1, !.pc = "llm",
                      !.llm = [phase |-> "race", start |-> t]]

\* the for loop over availableProviders, up to the next awaited provider call
RECURSIVE searchLoop(_, _)
searchLoop(r, t) ==
  IF r.index > Len(r.availableProviders) \/ Len(r.allResults) >= DEFAULT_MAX_RESULTS
    THEN afterLoop(r, t)
  ELSE IF ~ProviderEnabled(r.availableProviders[r.index])
    THEN searchLoop([r EXCEPT !.index = @ + 1], t)
  ELSE [r EXCEPT !.call[r.availableProviders[r.index]] = [phase |-> "race", start |-> t]]

\* the awaited call of p settled with outcome o: the body of the loop after
\* the await, or its catch clause
loopSettle(r, p, o, t) ==
  IF o.error # NoError /\ Catch(o.error) # NoError THEN respond(r, o.error, t)
  ELSE IF o.error = NoError /\ Len(o.results) > 0
    THEN searchLoop([r EXCEPT !.index = @ + 1,
                              !.providersUsed = Append(@, p),
                              !.resultsByProvider = PutResults(@, p, o.results),
                              !.allResults = @ \o o.results], t)
  ELSE searchLoop([r EXCEPT !.index = @ + 1], t)

\* the fetch wrapper of p (the wrappers of search-service are those of the
\* enhanced service without withRetry) ends with answer a
wrapperDone(r, p, a, t) ==
  LET o == fetchProviderResults(p, a)
      race == r.call[p].phase = "race"
      r1 == [r EXCEPT !.call[p].phase = "done",
                      !.providerStatuses =
                         IF o.report = "success" THEN routerRecordProviderSuccess(@, p)
                         ELSE IF o.report = "failure"
                           THEN routerRecordProviderFailure(@, p, AbortMessage, o.isRateLimit, t)
                         ELSE @]
  IN  IF race THEN loopSettle(r1, p, o, t) ELSE r1

\* controller.abort(): every fetch that carries the signal rejects
RECURSIVE abortFetches(_, _, _)
abortFetches(r, ps, t) ==
  IF ps = <<>> THEN r
  ELSE IF UsesSignal(Head(ps)) /\ r.call[Head(ps)].phase \in {"race", "orphan"}
    THEN abortFetches(wrapperDone(r, Head(ps), "abort", t), Tail(ps), t)
  ELSE abortFetches(r, Tail(ps), t)

\* a timer set at the start of the request is due
EndpointTimerDue ==
  \/ req.searchTimer = "armed" /\ now >= req.startTime + SEARCH_TIMEOUT
  \/ req.abortTimer = "armed" /\ now >= req.startTime + ENDPOINT_TIMEOUT

EndpointInit ==
  /\ st = [p \in AllProviders |-> [InitialStatus EXCEPT !.healthCheckStatus = "passing"]]
  /\ now = StartTime
  /\ lastHealthCheckTime = StartTime
  /\ hc = [p \in AllProviders |-> Idle]
  /\ ret = NoCall
  /\ consec = [p \in AllProviders |-> 0]
  /\ rlTime = [p \in AllProviders |-> NoTime]
  /\ steps = 0
  /\ srch = NoSearch
  /\ memoryCache = EmptyCache
  /\ merger = NoMerge
  /\ last = NoLast
  /\ retry = NoRetry
  /\ UtilIdle

\* GET with a query, up to the first await of comprehensiveSearch
Get ==
  /\ req.pc = "none"
  /\ LET S1 == routerRecoverAll(req.providerStatuses, ProviderOrder, now)
     IN  req' = searchLoop([req EXCEPT
                              !.pc = "fetch", !.startTime = now,
                              !.abortTimer = "armed", !.searchTimer = "armed",
                              !.providerStatuses = S1,
                              !.availableProviders =
                                 SelectSeq(ProviderOrder, LAMBDA p : ~S1[p].isDeprecated)],
                           now)
  /\ UNCHANGED <<quietVars, now, memoryCache, pool, cacheOp, memo, sched>>

\* the API of p answers the adapter's fetch
EndpointAnswer(p, a) ==
  /\ req.call[p].phase \in {"race", "orphan"}
  /\ req.call[p].phase = "race" => now < req.call[p].start + PROVIDER_TIMEOUT
  /\ req' = wrapperDone(req, p, a, now)
  /\ UNCHANGED <<quietVars, now, memoryCache, pool, cacheOp, memo, sched>>

\* withTimeout(..., 15000) around the call of p rejects
EndpointCallTimeout(p) ==
  /\ req.call[p].phase = "race"
  /\ now >= req.call[p].start + PROVIDER_TIMEOUT
  /\ ~EndpointTimerDue
  /\ req' = loopSettle([req EXCEPT !.call[p].phase = "orphan"], p,
                       [error |-> "TimeoutError", results |-> <<>>], now)
  /\ UNCHANGED <<quietVars, now, memoryCache, pool, cacheOp, memo, sched>>

\* the callback of the 30 second timer of comprehensiveSearch
EndpointSearchTimer ==
  /\ req.searchTimer = "armed"
  /\ now >= req.startTime + SEARCH_TIMEOUT
  /\ req' = [req EXCEPT !.searchTimer = "fired",
                        !.allResults = IF Len(@) = 0 THEN generateMockResults ELSE @,
                        !.providersUsed = IF Len(req.allResults) = 0
                                          THEN Append(@, "mock") ELSE @]
  /\ UNCHANGED <<quietVars, now, memoryCache, pool, cacheOp, memo, sched>>

\* the callback of the 55 second timer of GET: controller.abort()
EndpointAbortTimer ==
  /\ req.abortTimer = "armed"
  /\ now >= req.startTime + ENDPOINT_TIMEOUT
  /\ ~(req.searchTimer = "armed" /\ now >= req.startTime + SEARCH_TIMEOUT)
  /\ req' = abortFetches([req EXCEPT !.abortTimer = "fired", !.aborted = TRUE],
                         ProviderOrder, now)
  /\ UNCHANGED <<quietVars, now, memoryCache, pool, cacheOp, memo, sched>>

\* the completion call of enhanceResultsWithLLM ends
EndpointLlmReply(reply) ==
  /\ req.llm.phase \in {"race", "orphan"}
  /\ req.llm.phase = "race" => now < req.llm.start + LLM_TIMEOUT
  /\ req' = IF req.llm.phase = "orphan" THEN [req EXCEPT !.llm.phase = "done"]
            ELSE respond([req EXCEPT
                            !.llm.phase = "done",
                            !.allResults =
                               applyEnhancement(@, enhanceResultsWithLLM(Take(@, LLM_SUBSET), reply)),
                            !.providerStatuses = routerRecordProviderSuccess(@, "openrouter")],
                         NoError, now)
  /\ UNCHANGED <<quietVars, now, memoryCache, pool, cacheOp, memo, sched>>

\* withTimeout(..., 30000) around the enhancement rejects
EndpointLlmTimeout ==
  /\ req.llm.phase = "race"
  /\ now >= req.llm.start + LLM_TIMEOUT
  /\ ~EndpointTimerDue
  /\ req' = IF Catch("TimeoutError") = NoError
            THEN respond([req EXCEPT !.llm.phase = "orphan",
                                     !.allResults = algorithmicLevels(@)], NoError, now)
            ELSE respond([req EXCEPT !.llm.phase = "orphan"], "TimeoutError", now)
  /\ UNCHANGED <<quietVars, now, memoryCache, pool, cacheOp, memo, sched>>

\* Date.now() advances while the request awaits; a timer that is due fires
\* first
EndpointTick(d) ==
  /\ req.pc \in {"fetch", "llm"}
  /\ ~EndpointTimerDue
  /\ \A p \in AllProviders :
       req.call[p].phase = "race" => now < req.call[p].start + PROVIDER_TIMEOUT
  /\ req.llm.phase = "race" => now < req.llm.start + LLM_TIMEOUT
  /\ now' = now + d
  /\ UNCHANGED <<quietVars, req, memoryCache, pool, cacheOp, memo, sched>>

NextEndpoint ==
  \/ Get
  \/ \E p \in AllProviders, a \in HttpAnswers : EndpointAnswer(p, a)
  \/ \E p \in AllProviders : EndpointCallTimeout(p)
  \/ EndpointSearchTimer
  \/ EndpointAbortTimer
  \/ \E reply \in LlmReplies : EndpointLlmReply(reply)
  \/ EndpointLlmTimeout
  \/ \E d \in EndpointTicks : EndpointTick(d)

SpecEndpoint == EndpointInit /\ [][NextEndpoint]_vars

(***************************************************************************)
(* MemoryCache on its own (the store is memoryCache.search)                *)
(***************************************************************************)
CacheKeys == {"k1", "k2"}
CacheValues == {"a", "b"}

\* the ttl argument of set; the default applies when it is left out
CacheTtls == {0, DEFAULT_TTL}

\* the clock steps between operations
CacheTicks == {1, DEFAULT_TTL}

\* an operation on the cache, recorded with what it returned
CacheOperation(op, key, result, store, written) ==
  /\ steps < MaxCacheOps
  /\ steps' = steps + 1
  /\ memoryCache' = [memoryCache EXCEPT !.search = store]
  /\ cacheOp' = [op |-> op, key |-> key, t |-> now, result |-> result, written |-> written]
  /\ UNCHANGED <<st, now, lastHealthCheckTime, hc, ret, consec, rlTime, srch, merger, last,
                 retry, req, pool, memo, sched>>

Set(key, value, ttl) ==
  CacheOperation("set", key, "undefined",
                 CacheSet(memoryCache.search, key, value, ttl, now),
                 [k \in DOMAIN cacheOp.written \cup {key} |->
                    IF k = key THEN [value |-> value, t |-> now, ttl |-> ttl]
                    ELSE cacheOp.written[k]])

SetDefault(key, value) == Set(key, value, DEFAULT_TTL)

GetKey(key) ==
  CacheOperation("get", key,
                 IF CacheHit(memoryCache.search, key, now) THEN memoryCache.search[key].value
                 ELSE "null",
                 CacheAfterGet(memoryCache.search, key, now), cacheOp.written)

Has(key) ==
  CacheOperation("has", key,
                 IF CacheHit(memoryCache.search, key, now) THEN "true" ELSE "false",
                 CacheAfterGet(memoryCache.search, key, now), cacheOp.written)

Delete(key) ==
  CacheOperation("delete", key, "undefined",
                 [k \in DOMAIN memoryCache.search \ {key} |-> memoryCache.search[k]],
                 [k \in DOMAIN cacheOp.written \ {key} |-> cacheOp.written[k]])

Clear == CacheOperation("clear", "", "undefined", <<>>, <<>>)

\* the cleanup the constructor schedules every minute
Cleanup ==
  CacheOperation("cleanup", "", "undefined", CacheCleanup(memoryCache.search, now),
                 cacheOp.written)

CacheTick(d) ==
  /\ steps < MaxCacheOps
  /\ steps' = steps + 1
  /\ now' = now + d
  /\ cacheOp' = [cacheOp EXCEPT !.op = "tick"]
  /\ UNCHANGED <<st, lastHealthCheckTime, hc, ret, consec, rlTime, srch, memoryCache, merger,
                 last, retry, req, pool, memo, sched>>

NextStore ==
  \/ \E key \in CacheKeys, value \in CacheValues, ttl \in CacheTtls : Set(key, value, ttl)
  \/ \E key \in CacheKeys, value \in CacheValues : SetDefault(key, value)
  \/ \E key \in CacheKeys : GetKey(key)
  \/ \E key \in CacheKeys : Has(key)
  \/ \E key \in CacheKeys : Delete(key)
  \/ Clear
  \/ Cleanup
  \/ \E d \in CacheTicks : CacheTick(d)

SpecStore == EndpointInit /\ [][NextStore]_vars

(***************************************************************************)
(* withConcurrencyLimit on its own                                         *)
(***************************************************************************)

PoolItems == {"a", "b"}
ItemLists == UNION {[1..n -> PoolItems] : n \in 0..MaxItems}

\* a slot of new Array(items.length) that was never assigned
EmptySlot == <<>>

\* what operation(item, index) resolves with: any function of both
operation(item, index) == <<item, index>>

\* the number of workers started at once, and one that starts them all
initialBatch_all(concurrency, n) == n

initialBatch(concurrency, n) == IF concurrency < n THEN concurrency ELSE n

\* results[index] = value (index counts from 0), and one that stores in the
\* order of completion
storeResult_push(results, index, value) ==
  LET free == {i \in 1..Len(results) : results[i] = EmptySlot}
      slot == CHOOSE i \in free : \A j \in free : i <= j
  IN  [results EXCEPT ![slot] = value]

storeResult(results, index, value) == [results EXCEPT ![index + 1] = value]

\* the call up to its await: the array, and the workers of the initial batch,
\* each of which takes an index and starts its operation
withConcurrencyLimit(items, concurrency) ==
  LET n == Len(items)
      k == initialBatch(concurrency, n)
      results == [i \in 1..n |-> EmptySlot]
  IN  [pc |-> IF k = 0 THEN "resolved" ELSE "running",
       items |-> items, concurrency |-> concurrency, currentIndex |-> k,
       inflight |-> 0..(k - 1), started |-> [i \in 1..k |-> i - 1],
       completed |-> <<>>, failed |-> {}, results |-> results,
       returned |-> IF k = 0 THEN results ELSE <<>>, error |-> -1]

\* processNext of a worker whose operation resolved: take the next index
\* and start its operation, or return
poolProcessNext(P) ==
  LET index == P.currentIndex
      P1 == [P EXCEPT !.currentIndex = @ + 1]
  IN  IF index >= Len(P.items) THEN P1
      ELSE [P1 EXCEPT !.inflight = @ \cup {index}, !.started = Append(@, index)]

\* Promise.all(workers) resolves once every worker has returned
poolSettle(P) ==
  IF P.pc = "running" /\ P.inflight = {}
    THEN [P EXCEPT !.pc = "resolved", !.returned = P.results]
    ELSE P

PoolInit ==
  /\ st = [p \in AllProviders |-> [InitialStatus EXCEPT !.healthCheckStatus = "passing"]]
  /\ now = StartTime
  /\ lastHealthCheckTime = StartTime
  /\ hc = [p \in AllProviders |-> Idle]
  /\ ret = NoCall
  /\ consec = [p \in AllProviders |-> 0]
  /\ rlTime = [p \in AllProviders |-> NoTime]
  /\ steps = 0
  /\ srch = NoSearch
  /\ memoryCache = EmptyCache
  /\ merger = NoMerge
  /\ last = NoLast
  /\ retry = NoRetry
  /\ req = NoRequest
  /\ cacheOp = NoCacheOp
  /\ memo = NoMemo
  /\ sched = NoScheduler
  /\ \E items \in ItemLists, concurrency \in 0..MaxConcurrency :
       pool = withConcurrencyLimit(items, concurrency)

\* the operation of item i resolves; its worker stores the result and goes on
OperationResolves(i) ==
  /\ i \in pool.inflight
  /\ LET P1 == [pool EXCEPT
                  !.inflight = @ \ {i},
                  !.completed = Append(@, i),
                  !.results = storeResult(@, i, operation(pool.items[i + 1], i))]
     IN  pool' = poolSettle(poolProcessNext(P1))
  /\ UNCHANGED <<routerVars, srch, memoryCache, merger, last, retry, req, cacheOp, memo, sched>>

\* the operation of item i rejects; its worker rethrows, which rejects the
\* call at once, while the other workers go on
OperationRejects(i) ==
  /\ i \in pool.inflight
  /\ LET P1 == [pool EXCEPT !.inflight = @ \ {i}, !.failed = @ \cup {i}]
     IN  pool' = IF pool.pc = "running"
                   THEN [P1 EXCEPT !.pc = "rejected", !.error = i]
                   ELSE P1
  /\ UNCHANGED <<routerVars, srch, memoryCache, merger, last, retry, req, cacheOp, memo, sched>>

NextPool ==
  \/ \E i \in 0..(MaxItems - 1) : OperationResolves(i)
  \/ \E i \in 0..(MaxItems - 1) : OperationRejects(i)

SpecPool == PoolInit /\ [][NextPool]_vars

(***************************************************************************)
(* MemoryCache.memoize                                                     *)
(***************************************************************************)
MemoKeys == {"k1", "k2"}
MemoTicks == {1, LLM_CACHE_TTL}

\* what the invocation of the wrapped function made by call c resolves with
fnResult(key, c) == <<key, c>>

\* this.set(key, result, ttl) after the await; and a wrapper that keeps the
\* entry another call has stored in the meantime
memoizeSet_keepFirst(C, key, result, ttl, t) ==
  IF CacheHit(C, key, t) THEN C ELSE CacheSet(C, key, result, ttl, t)

memoizeSet(C, key, result, ttl, t) == CacheSet(C, key, result, ttl, t)

\* a call of the memoized function up to its await: the cached value is
\* returned, or the wrapped function is invoked
MemoCall(key) ==
  /\ Len(memo.calls) < MaxMemoCalls
  /\ LET hit == CacheHit(memoryCache.llm, key, now)
     IN  memo' = [memo EXCEPT !.calls =
                    Append(@, [key |-> key,
                               phase |-> IF hit THEN "hit" ELSE "pending",
                               result |-> IF hit THEN memoryCache.llm[key].value ELSE <<>>,
                               issuedAfter |-> Len(memo.completed),
                               doneAt |-> IF hit THEN now ELSE NoTime])]
  /\ memoryCache' = [memoryCache EXCEPT !.llm = CacheAfterGet(@, key, now)]
  /\ UNCHANGED <<routerVars, srch, merger, last, retry, req, pool, cacheOp, sched>>

\* the invocation made by call c resolves: the result is stored and returned
MemoResolves(c) ==
  /\ c \in 1..Len(memo.calls)
  /\ memo.calls[c].phase = "pending"
  /\ LET key == memo.calls[c].key
         result == fnResult(key, c)
     IN  /\ memo' = [memo EXCEPT !.calls[c].phase = "resolved",
                                 !.calls[c].result = result,
                                 !.calls[c].doneAt = now,
                                 !.completed = Append(@, c)]
         /\ memoryCache' = [memoryCache EXCEPT
                             !.llm = memoizeSet(@, key, result, LLM_CACHE_TTL, now)]
  /\ UNCHANGED <<routerVars, srch, merger, last, retry, req, pool, cacheOp, sched>>

\* the invocation made by call c rejects: the call rejects
MemoRejects(c) ==
  /\ c \in 1..Len(memo.calls)
  /\ memo.calls[c].phase = "pending"
  /\ memo' = [memo EXCEPT !.calls[c].phase = "rejected",
                          !.calls[c].doneAt = now,
                          !.completed = Append(@, c)]
  /\ UNCHANGED <<routerVars, srch, memoryCache, merger, last, retry, req, pool, cacheOp, sched>>

MemoTick(d) ==
  /\ steps < MaxMemoTicks
  /\ steps' = steps + 1
  /\ now' = now + d
  /\ UNCHANGED <<st, lastHealthCheckTime, hc, ret, consec, rlTime, searchVars>>

NextMemo ==
  \/ \E key \in MemoKeys : MemoCall(key)
  \/ \E c \in 1..MaxMemoCalls : MemoResolves(c)
  \/ \E c \in 1..MaxMemoCalls : MemoRejects(c)
  \/ \E d \in MemoTicks : MemoTick(d)

SpecMemo == EndpointInit /\ [][NextMemo]_vars

(***************************************************************************)
(* TaskScheduler                                                           *)
(***************************************************************************)
CHECK_INTERVAL == 10000
TaskIntervals == {2 * CHECK_INTERVAL}

Without(seq, x) == SelectSeq(seq, LAMBDA y : y # x)

IndexOf(seq, x) == CHOOSE i \in 1..Len(seq) : seq[i] = x

\* the for loop of checkTasks call k from its position in the Map up to the
\* next await, or to its end
RECURSIVE checkTasksLoop(_, _)
checkTasksLoop(S, k) ==
  LET tk == S.ticks[k]
  IN  IF tk.pos >= Len(S.order) THEN [S EXCEPT !.ticks[k].phase = "done"]
      ELSE LET id == S.order[tk.pos + 1]
               o == S.tasks[id]
               S1 == [S EXCEPT !.ticks[k].pos = @ + 1]
           IN  IF S.objects[o].isRunning THEN checkTasksLoop(S1, k)
               ELSE IF tk.now >= S.objects[o].nextRun
                 THEN [S1 EXCEPT !.objects[o].isRunning = TRUE,
                                 !.runs = Append(@, [task |-> o, tick |-> k, phase |-> "running"]),
                                 !.ticks[k].phase = "awaiting"]
               ELSE checkTasksLoop(S1, k)

\* schedule(id, fn, interval, description, runImmediately)
Schedule(id, interval, runImmediately) ==
  /\ Len(sched.objects) < MaxTaskObjects
  /\ LET task == [id |-> id, interval |-> interval,
                  lastRun |-> IF runImmediately THEN 0 ELSE now,
                  nextRun |-> IF runImmediately THEN now ELSE now + interval,
                  runCount |-> 0, isRunning |-> FALSE]
     IN  sched' = [sched EXCEPT !.objects = Append(@, task),
                                !.tasks[id] = Len(sched.objects) + 1,
                                !.order = IF sched.tasks[id] # 0 THEN @ ELSE Append(@, id),
                                !.running = TRUE]
  /\ UNCHANGED <<routerVars, srch, memoryCache, merger, last, retry, req, pool, cacheOp, memo>>

\* unschedule(id) of a task that is in the Map; an iteration in progress
\* goes on with the entries that follow the deleted one
Unschedule(id) ==
  /\ sched.tasks[id] # 0
  /\ LET i == IndexOf(sched.order, id)
     IN  sched' = [sched EXCEPT
                     !.tasks[id] = 0,
                     !.order = Without(@, id),
                     !.ticks = [k \in 1..Len(sched.ticks) |->
                                  IF i <= sched.ticks[k].pos
                                  THEN [sched.ticks[k] EXCEPT !.pos = @ - 1]
                                  ELSE sched.ticks[k]]]
  /\ UNCHANGED <<routerVars, srch, memoryCache, merger, last, retry, req, pool, cacheOp, memo>>

\* the interval timer fires CHECK_INTERVAL after the last time: checkTasks()
\* up to its first await
TimerFires ==
  /\ sched.running
  /\ Len(sched.ticks) < MaxSchedTicks
  /\ now' = now + CHECK_INTERVAL
  /\ sched' = checkTasksLoop([sched EXCEPT !.ticks =
                                Append(@, [now |-> now', pos |-> 0, phase |-> "walking"])],
                             Len(sched.ticks) + 1)
  /\ UNCHANGED <<st, lastHealthCheckTime, hc, ret, consec, rlTime, steps,
                 srch, memoryCache, merger, last, retry, req, pool, cacheOp, memo>>

\* runNow(id) that does not return false at once: up to its await
RunNow(id) ==
  /\ Cardinality({r \in 1..Len(sched.runs) : sched.runs[r].tick = 0}) < MaxManualRuns
  /\ sched.tasks[id] # 0
  /\ ~sched.objects[sched.tasks[id]].isRunning
  /\ sched' = [sched EXCEPT !.objects[sched.tasks[id]].isRunning = TRUE,
                            !.runs = Append(@, [task |-> sched.tasks[id], tick |-> 0,
                                                phase |-> "running"])]
  /\ UNCHANGED <<routerVars, srch, memoryCache, merger, last, retry, req, pool, cacheOp, memo>>

\* the function called by run r settles: the rest of the try, the finally,
\* and for checkTasks the loop up to its next await
FnSettles(r, ok) ==
  /\ r \in 1..Len(sched.runs)
  /\ sched.runs[r].phase = "running"
  /\ LET o == sched.runs[r].task
         k == sched.runs[r].tick
         t == IF k = 0 THEN now ELSE sched.ticks[k].now
         S1 == [sched EXCEPT
                  !.runs[r].phase = IF ok THEN "resolved" ELSE "rejected",
                  !.objects[o] =
                     [@ EXCEPT !.lastRun = IF ok THEN t ELSE @,
                               !.nextRun = IF ok THEN t + sched.objects[o].interval ELSE @,
                               !.runCount = IF ok THEN @ + 1 ELSE @,
                               !.isRunning = FALSE]]
     IN  sched' = IF k = 0 THEN S1 ELSE checkTasksLoop(S1, k)
  /\ UNCHANGED <<routerVars, srch, memoryCache, merger, last, retry, req, pool, cacheOp, memo>>

NextScheduler ==
  \/ \E id \in TaskIds, interval \in TaskIntervals, runImmediately \in BOOLEAN :
       Schedule(id, interval, runImmediately)
  \/ \E id \in TaskIds : Unschedule(id)
  \/ TimerFires
  \/ \E id \in TaskIds : RunNow(id)
  \/ \E r \in 1..(2 * MaxSchedTicks + MaxManualRuns), ok \in BOOLEAN : FnSettles(r, ok)

SpecScheduler == RouterInit /\ [][NextScheduler]_vars

(***************************************************************************)
(* Router: a long run of time                                              *)
(***************************************************************************)
\* the threshold comprehensiveSearch passes to getAvailableProviders
SELECTION_MIN_WEIGHT == <<1, 5>>

\* the clock advances by an hour at a time up to the horizon; failures carry
\* no message, so that every cooldown is 5 or 10 minutes, and outcomes are
\* recorded an hour or more before the horizon
RecoveryStep == RATE_LIMIT_COOLDOWN
MaxRecoveryTicks == 2
Horizon == StartTime + MaxRecoveryTicks * RecoveryStep
LastOutcomeTime == Horizon - RecoveryStep

RecoveryFailure(p, isRateLimit) ==
  /\ now <= LastOutcomeTime
  /\ RecordFailure(p, "", isRateLimit, 0)

RecoverySuccess(p) ==
  /\ now <= LastOutcomeTime
  /\ RecordSuccess(p, 0)

\* the selection of the orchestrator
Selection == GetAvailableProviders(FALSE, SELECTION_MIN_WEIGHT)

HealthCheckEnds == \E p \in ProviderName, h \in BOOLEAN : HealthCheckDone(p, h)

RecoveryTick ==
  /\ now < Horizon
  /\ \A p \in DOMAIN hc : ~hc[p].pending
  /\ now' = now + RecoveryStep
  /\ ret' = NoCall
  /\ UNCHANGED <<st, lastHealthCheckTime, hc, consec, rlTime, steps, searchVars>>

NextRecovery ==
  \/ \E p \in ProviderName, rl \in BOOLEAN : RecoveryFailure(p, rl)
  \/ \E p \in ProviderName : RecoverySuccess(p)
  \/ Selection
  \/ HealthCheckEnds
  \/ RecoveryTick

\* time keeps advancing, selections keep being made, and a health check that
\* was started ends
SpecRecovery ==
  /\ RouterInit
  /\ [][NextRecovery]_vars
  /\ WF_vars(RecoveryTick)
  /\ WF_vars(Selection)
  /\ WF_vars(HealthCheckEnds)

(***************************************************************************)
(* Claims about the Router                                                 *)
(***************************************************************************)

\* C1: in every reachable state every provider has weight 0 if it is
\* deprecated, and a weight in [0.1, 1] if it is not.  (Refuted: an ordinary
\* failure recorded for a provider that a rate-limit failure deprecated
\* blends its weight to 0.03 and leaves it deprecated.)
C1_WeightInvariant ==
  \A p \in ProviderName :
    /\ st[p].isDeprecated => st[p].weight = Zero
    /\ ~st[p].isDeprecated => RLe(<<1, 10>>, st[p].weight) /\ RLe(st[p].weight, One)

C3_RateLimitDeprecates ==
  [][\A p \in ProviderName, m \in ErrorMessages, rt \in FailureResponseTimes :
       RecordFailure(p, m, TRUE, rt) => st'[p].isDeprecated /\ st'[p].weight = Zero]_vars

\* a rate-limit failure has just been recorded for a provider that had
\* successes before
C3_Witness ==
  \E p \in ProviderName :
    /\ rlTime[p] = now /\ st[p].lastFailureTime = now
    /\ st[p].cooldownMultiplier = 2 /\ st[p].successCount > 0
    /\ st[p].isDeprecated /\ st[p].weight = Zero

\* C4: getAvailableProviders(includeDeprecated, minWeight) leaves no provider
\* whose cooldown has elapsed un-recovered and returns, each once and by
\* non-increasing weight, exactly the providers that pass the filter
\* (weight >= minWeight, inclusive); without includeDeprecated it returns no
\* deprecated provider.
C4_AvailableProviders ==
  ret.called =>
    LET L == ret.list
    IN  /\ \A p \in ProviderName :
             ~(st[p].isDeprecated /\ now - st[p].lastFailureTime > Cooldown(st[p]))
        /\ Elems(L) = {p \in ProviderName :
                         /\ ret.inc \/ ~st[p].isDeprecated
                         /\ RLe(ret.mw, st[p].weight)}
        /\ Len(L) = Cardinality(Elems(L))
        /\ \A i, j \in 1..Len(L) : i < j => RLe(st[L[j]].weight, st[L[i]].weight)
        /\ ~ret.inc => \A p \in Elems(L) : ~st[p].isDeprecated

\* a call without includeDeprecated returned a provider whose weight equals
\* minWeight and left out a deprecated one
C4_Witness ==
  /\ ret.called /\ ~ret.inc
  /\ \E p \in Elems(ret.list) : st[p].weight = ret.mw
  /\ \E q \in ProviderName \ Elems(ret.list) : st[q].isDeprecated

\* C5: a provider for which a rate-limit failure was recorded is not returned
\* by getAvailableProviders(false, minWeight) before the rate-limit cooldown
\* has elapsed since that failure.  (Refuted: a success of another in-flight
\* call, a passing health check, or an error message without "rate limit"
\* bring it back earlier.)
C5_RateLimitedExcluded ==
  (ret.called /\ ~ret.inc) =>
    \A p \in ProviderName :
      (rlTime[p] # NoTime /\ now - rlTime[p] <= RATE_LIMIT_COOLDOWN) => p \notin Elems(ret.list)

\* the provider is covered by a Router query
QueryCovers(p) ==
  \/ \E inc \in BOOLEAN, mw \in MinWeights : GetAvailableProviders(inc, mw)
  \/ GetAllProviderStatuses
  \/ GetProviderWeight(p)
  \/ IsProviderDeprecated(p)

\* C6: a Router query made when a deprecated provider's cooldown has elapsed
\* since lastFailureTime leaves it not deprecated, with failureCount 0 and a
\* weight strictly between 0 and 1, and the orchestrator's selection
\* getAvailableProviders(false, 0.2) then contains it.
C6_RecoveryOnQuery ==
  [][\A p \in ProviderName :
       (/\ st[p].isDeprecated
        /\ st[p].lastFailureTime # NoTime
        /\ now - st[p].lastFailureTime > Cooldown(st[p])
        /\ QueryCovers(p))
       => /\ ~st'[p].isDeprecated
          /\ st'[p].failureCount = 0
          /\ RLt(Zero, st'[p].weight) /\ RLt(st'[p].weight, One)
          /\ p \in Elems(getAvailableProviders(Recovered(st', ProviderName, now'), FALSE, <<1, 5>>))]_vars

\* a provider deprecated by a rate-limit failure was recovered by a query
\* (a reset would have cleared the multiplier) and is selected again
C6_Witness ==
  /\ ret.called /\ ~ret.inc
  /\ \E p \in Elems(ret.list) :
       /\ rlTime[p] # NoTime /\ st[p].cooldownMultiplier = 2
       /\ ~st[p].isDeprecated /\ st[p].failureCount = 0
       /\ st[p].weight = <<3, 10>> /\ st[p].healthCheckStatus = "warning"

\* C16: two calls of getAvailableProviders with the same arguments, the
\* second directly after the first, return the same providers in the same
\* order, also when the first call started the health checks.
\* (ret is set by a call of getAvailableProviders and cleared by every other
\* operation.)
C16_Idempotent ==
  [][(ret.called /\ ret'.called /\ ret'.inc = ret.inc /\ ret'.mw = ret.mw)
       => ret'.list = ret.list]_vars

\* a call has returned while the health checks it started are pending, one
\* provider recovered and another still deprecated: the call to repeat
C16_Witness ==
  /\ ret.called /\ ~ret.inc
  /\ lastHealthCheckTime = now
  /\ \E p \in ProviderName : hc[p].pending
  /\ \E p \in Elems(ret.list) : st[p].weight = <<3, 10>> /\ st[p].healthCheckStatus = "warning"
  /\ \E q \in ProviderName \ Elems(ret.list) : st[q].isDeprecated

(***************************************************************************)
(* Claims about the search                                                 *)
(***************************************************************************)

\* C7: when the live API call of a provider is answered with HTTP 429 or 403,
\* the failure is reported to the Router as a rate-limit failure, so that the
\* provider is deprecated after the call.  (Refuted: every adapter answers
\* such a status with its mock data, and the call is reported as a success.)
C7_RateLimitReported ==
  [][\A p \in AllProviders, a \in {"429", "403"}, latency \in ReplyLatencies :
       HttpAnswer(p, a, latency) => st'[p].isDeprecated]_vars

\* no provider that was selected contributed a result: each call threw, timed
\* out or returned zero results
NoProviderResults ==
  /\ srch.pc = "done"
  /\ srch.outcome = "resolved"
  /\ ~srch.response.fromCache
  /\ \A i \in 1..Len(srch.searchResults) : srch.searchResults[i] = Null

\* C8: comprehensiveSearch never rejects: whatever provider errors, rate
\* limits, timeouts, aborts and LLM failures occur, a call that has ended has
\* resolved with a response, and a call that has not ended awaits something
\* that a timeout bounds and is no older than the two timeouts together.
C8_NeverRejects ==
  /\ srch.outcome # "rejected"
  /\ srch.pc = "done" => srch.outcome = "resolved"
  /\ srch.pc = "fetch" => \E p \in AllProviders : srch.call[p].phase = "race"
  /\ srch.pc = "llm" => srch.llm.phase = "race"
  /\ srch.pc \in {"fetch", "llm"} => now - srch.startTime <= PROVIDER_TIMEOUT + LLM_TIMEOUT

\* a search ended although a provider call was aborted, another timed out,
\* and the enhancement timed out
C8_Witness ==
  /\ srch.pc = "done" /\ srch.outcome = "resolved"
  /\ srch.call["exa"].answer = "abort"
  /\ srch.call["google"].phase = "orphan"
  /\ srch.llm.phase = "orphan"

C10_MockLevels ==
  (NoProviderResults /\ srch.params.maxResults >= 5) =>
    /\ Len(srch.response.results) = 5
    /\ \A i \in 1..Len(srch.response.results) : srch.response.results[i].provider = "mock"
    /\ {srch.response.results[i].knowledgeLevel : i \in 1..Len(srch.response.results)} = 1..5

(***************************************************************************)
(* Claims about the Merger                                                 *)
(***************************************************************************)
\* the results passed to the Merger, in the order of the map
MergeInputResults ==
  LET RECURSIVE all(_)
      all(rbp) == IF rbp = <<>> THEN <<>> ELSE Head(rbp).results \o all(Tail(rbp))
  IN  Elems([i \in 1..Len(all(merger.input)) |->
               [all(merger.input)[i] EXCEPT !.score = IF @ = Zero THEN Rat(1, 2) ELSE @]])

\* r is in the list the Merger returned
Appears(r) == \E k \in 1..Len(merger.output) : merger.output[k].title = r.title

\* the URL with the protocol, a leading "www." and the trailing slash
\* stripped, in lower case
StrippedUrl(u) == u.rest

\* score times provider weight
WeightedScore(r) == RMul(r.score, providerWeights(r.provider))

C12_HigherScoreKept ==
  merger.phase = "returned" =>
    \A r, q \in MergeInputResults :
      (/\ r.provider # q.provider
       /\ r.url # EmptyUrl /\ q.url # EmptyUrl
       /\ StrippedUrl(r.url) = StrippedUrl(q.url)
       /\ RLt(WeightedScore(q), WeightedScore(r))
       /\ \A o \in MergeInputResults :
            (o.url # EmptyUrl /\ StrippedUrl(o.url) = StrippedUrl(r.url)) => o \in {r, q})
      => Appears(r)

(***************************************************************************)
(* Claims about the search: levels, cache, retries                         *)
(***************************************************************************)
\* C13: every result of every response comprehensiveSearch returns carries
\* an integer knowledgeLevel between 1 and 5, with or without LLM
\* enhancement and whatever the number of providers that contributed.
C13_LevelsInRange ==
  (srch.pc = "done" /\ srch.outcome = "resolved") =>
    \A i \in 1..Len(srch.response.results) :
      srch.response.results[i].knowledgeLevel \in 1..MAX_LEVEL

\* the tuple the cache key is made of
KeyTuple(params) ==
  <<params.query, params.searchDepth, params.maxResults, params.model, params.useLLM,
    params.skipTavily>>

\* C14: with caching enabled, a search that completes and is immediately
\* repeated with the same parameters returns, without calling any provider
\* or the model, the first response with fromCache set to true.
C14_RepeatFromCache ==
  (last.count = 1 /\ srch.pc # "idle" /\ srch.params = last.params /\ srch.params.useCache) =>
    /\ srch.pc = "done"
    /\ srch.outcome = "resolved"
    /\ srch.response = [last.response EXCEPT !.fromCache = TRUE]
    /\ ~last.response.fromCache
    /\ \A p \in AllProviders : srch.call[p].phase = "none"
    /\ srch.llm.phase = "none"

C14_Witness ==
  /\ last.count = 1 /\ srch.pc = "done" /\ srch.params = last.params /\ srch.params.useCache
  /\ srch.response.fromCache
  /\ srch.response.providers = <<"exa", "google">>
  /\ Len(srch.response.results) = 10

\* C15: a search is answered from the cache only if an earlier search with
\* exactly the same tuple (query, searchDepth, maxResults, model, useLLM,
\* skipTavily) stored the entry.
C15_SameTupleOnly ==
  (srch.pc = "done" /\ srch.response.fromCache) =>
    \E params \in last.stored : KeyTuple(params) = KeyTuple(srch.params)

\* C17: a call that fails with an AbortError or a TimeoutError is never
\* retried: neither under withRetry's default policy nor in a provider fetch
\* of comprehensiveSearch is the operation invoked again after such an error.
C17_AbortNotRetried ==
  \A i \in 1..Len(retry.calls) :
    retry.calls[i].outcome \in {"AbortError", "TimeoutError"} =>
      i = Len(retry.calls) /\ retry.phase = "rejected"

\* C18: timeouts and aborts never deprecate a provider: after any number of
\* calls to a provider that end in a TimeoutError or AbortError, with no
\* other kind of failure recorded, the provider is not deprecated.
C18_AbortsDoNotDeprecate ==
  \A p \in AllProviders : rlTime[p] = NoTime => ~st[p].isDeprecated

\* C19: in the concurrent fetch of a search, a provider whose call fails or
\* times out does not prevent the other selected providers from being
\* called, and the results of every provider that succeeds (its fetch
\* returns results before the per-call timeout) are collected for the
\* response.
C19_SiblingsCollected ==
  (srch.pc = "done" /\ ~srch.response.fromCache) =>
    \A i \in 1..Len(srch.availableProviders) :
      LET p == srch.availableProviders[i]
          c == srch.call[p]
      IN  ProviderEnabled(p) =>
            /\ c.phase # "none"
            /\ (c.phase = "done" /\ c.inTime /\ Len(fetchProviderResults(p, c.answer).results) > 0)
                 => /\ srch.outcome = "resolved"
                    /\ p \in Elems(srch.response.providers)
                    /\ \E k \in 1..Len(srch.resultsByProvider) :
                         srch.resultsByProvider[k] =
                           [provider |-> p, results |-> fetchProviderResults(p, c.answer).results]

C19_Witness ==
  /\ srch.pc = "done" /\ srch.outcome = "resolved"
  /\ srch.call["exa"].answer = "abort"
  /\ srch.call["google"].answer = "ok" /\ srch.call["google"].inTime
  /\ srch.response.providers = <<"google">>
  /\ Len(srch.response.results) = Len(LiveResponse("google"))

\* the call of p in this search failed: the API answered with an error or a
\* rate limit, the caller's abort ended it, or it ran into the 15 second
\* timeout
CallFailed(p) ==
  \/ srch.call[p].phase = "orphan"
  \/ srch.call[p].phase = "done" /\ ~srch.call[p].inTime
  \/ srch.call[p].phase = "done" /\ srch.call[p].answer \in {"abort", "429", "403", "500"}

\* C20: every provider call of a search that fails, by error, rate limit,
\* abort or the per-call timeout, has been reported to the Router as a
\* failure of that provider when the search responds.
C20_FailuresReported ==
  (srch.pc = "done" /\ ~srch.response.fromCache) =>
    \A p \in AllProviders : CallFailed(p) => srch.call[p].report = "failure"

(***************************************************************************)
(* Claims about the search: deadlines, enhancement, providers              *)
(***************************************************************************)
\* C21: when the 30 second timer of the search fires while provider calls or
\* the enhancement are pending, the search stops waiting and responds.
C21_DeadlineResponds ==
  srch.timer = "fired" => srch.pc = "done" /\ srch.outcome = "resolved"

\* C22: if the 55 second abort signal of the search endpoint fires before the
\* search has completed, the request ends with the "Search timed out"
\* outcome (HTTP 504), not with a success and not with a 500.
C22_OuterDeadline504 ==
  (req.pc = "done" /\ req.abortTimer = "fired") => req.status = 504

\* C23: in a non-cached search with LLM enhancement the merge runs before the
\* enhancement: the knowledge levels a successful enhancement assigned are
\* the levels of the matching results in the response, also when two or more
\* providers contributed.
C23_EnhancedLevelsInResponse ==
  (srch.pc = "done" /\ srch.outcome = "resolved" /\ ~srch.response.fromCache
     /\ srch.params.useLLM /\ Len(srch.llm.output) > 0) =>
    \A i \in 1..Len(srch.response.results) :
      LET assigned == MapGet([j \in 1..Len(srch.llm.output) |->
                                [title |-> srch.llm.output[j].title,
                                 level |-> srch.llm.output[j].knowledgeLevel]],
                             srch.response.results[i].title)
      IN  assigned # 0 => srch.response.results[i].knowledgeLevel = assigned

Contributed(p) ==
  /\ srch.call[p].phase = "done" /\ srch.call[p].inTime
  /\ Len(fetchProviderResults(p, srch.call[p].answer).results) > 0

C26_RouterWeights ==
  (srch.pc = "done" /\ srch.outcome = "resolved" /\ ~srch.response.fromCache
     /\ Len(srch.resultsByProvider) > 1) =>
    \A i \in 1..Len(srch.response.results) :
      LET r == srch.response.results[i]
          raw == fetchProviderResults(r.provider, srch.call[r.provider].answer).results
      IN  \E k \in 1..Len(raw) :
            /\ raw[k].title = r.title
            /\ r.score = RMul(raw[k].score, st[r.provider].weight)

(***************************************************************************)
(* Claims about the utilities                                              *)
(***************************************************************************)
\* C27: after set(key, v, ttl) at time t, get(key) returns v at every time
\* up to and including t + ttl unless the key was overwritten, deleted or
\* cleared, and at any later time returns null and removes the entry.
C27_GetWithinTtl ==
  (cacheOp.op = "get" /\ cacheOp.key \in DOMAIN cacheOp.written) =>
    LET w == cacheOp.written[cacheOp.key]
    IN  IF cacheOp.t <= w.t + w.ttl THEN cacheOp.result = w.value
        ELSE cacheOp.result = "null" /\ cacheOp.key \notin DOMAIN memoryCache.search

C27_Witness ==
  /\ cacheOp.op = "get" /\ cacheOp.key \in DOMAIN cacheOp.written
  /\ cacheOp.written[cacheOp.key].ttl = DEFAULT_TTL
  /\ cacheOp.t = cacheOp.written[cacheOp.key].t + DEFAULT_TTL
  /\ cacheOp.result = cacheOp.written[cacheOp.key].value

\* C28: withRetry invokes the operation at most maxRetries + 1 times, with
\* the attempt numbers 0, 1, 2, ... in order; it returns the first successful
\* result without a further invocation, invokes again after a failure only
\* if shouldRetry(error) holds and attempts remain, and otherwise rejects
\* with the error of the last invocation.
C28_RetryContract ==
  LET n == Len(retry.calls)
      invoked == n + (IF retry.phase = "calling" THEN 1 ELSE 0)
  IN  /\ invoked <= retry.maxRetries + 1
      /\ \A i \in 1..n : retry.calls[i].attempt = i - 1
      /\ retry.phase = "calling" => retry.attempt = n
      /\ \A i \in 1..n :
            (i < invoked \/ retry.phase = "waiting") =>
              /\ retry.calls[i].outcome # "ok"
              /\ shouldRetry(retry.caller, retry.calls[i].outcome)
              /\ retry.calls[i].attempt < retry.maxRetries
      /\ (n > 0 /\ retry.calls[n].outcome = "ok") =>
            retry.phase = "resolved" /\ retry.settled = "ok"
      /\ (n > 0 /\ retry.calls[n].outcome # "ok"
            /\ (~shouldRetry(retry.caller, retry.calls[n].outcome)
                  \/ retry.calls[n].attempt >= retry.maxRetries)) =>
            retry.phase = "rejected" /\ retry.settled = retry.calls[n].outcome
      /\ retry.phase \in {"resolved", "rejected"} => retry.settled = retry.calls[n].outcome

C28_Witness ==
  /\ retry.phase = "resolved"
  /\ retry.maxRetries = DEFAULT_MAX_RETRIES
  /\ Len(retry.calls) = DEFAULT_MAX_RETRIES + 1
  /\ retry.calls[1].outcome = "Error"
  /\ retry.calls[Len(retry.calls)].attempt = DEFAULT_MAX_RETRIES

\* C29: during withConcurrencyLimit(items, operation, c) with c >= 1 the
\* operations started and not yet settled never number more than c, and the
\* operation of each item is started at most once.
C29_ConcurrencyBounded ==
  (pool.pc # "none" /\ pool.concurrency >= 1) =>
    /\ Cardinality(pool.inflight) <= pool.concurrency
    /\ \A i, j \in 1..Len(pool.started) : i # j => pool.started[i] # pool.started[j]
    /\ \A i \in 1..Len(pool.started) : pool.started[i] \in 0..(Len(pool.items) - 1)

C29_Witness ==
  /\ pool.concurrency = 2
  /\ Len(pool.items) = 3
  /\ Cardinality(pool.inflight) = 2
  /\ Len(pool.started) = 3
  /\ Len(pool.completed) = 1

\* C30: when no operation fails and c >= 1, withConcurrencyLimit resolves
\* only after every item has been processed, with an array r as long as
\* items in which r[i] is the result of operation(items[i], i), whatever the
\* order in which the operations complete.
C30_ResultsInPlace ==
  (pool.pc = "resolved" /\ pool.concurrency >= 1 /\ pool.failed = {}) =>
    /\ Elems(pool.completed) = 0..(Len(pool.items) - 1)
    /\ Len(pool.returned) = Len(pool.items)
    /\ \A i \in 1..Len(pool.items) :
          pool.returned[i] = operation(pool.items[i], i - 1)

C30_Witness ==
  /\ pool.pc = "resolved"
  /\ pool.concurrency = 2
  /\ pool.items = <<"a", "b", "a">>
  /\ pool.completed = <<1, 0, 2>>
  /\ pool.failed = {}

(***************************************************************************)
(* Claims about timeouts, recovery and bookkeeping                          *)
(***************************************************************************)

\* C31: withTimeout(op, ms) settles with op's own outcome if op settles
\* before the timer and otherwise rejects with TimeoutError (fetchResults
\* turns that into null); after a timeout op is not cancelled: when it
\* settles later, its outcome is still recorded in the Router.
C31_TimeoutKeepsOperation ==
  [][\A p \in AllProviders :
       LET c == srch.call[p]
           c2 == srch'.call[p]
           o == fetchProviderResults(p, c2.answer)
       IN  /\ (c.phase = "race" /\ c2.phase = "done") =>
                 srch'.searchResults[c.index] = fetchResults(p, o).value
           /\ (c.phase = "race" /\ c2.phase = "orphan") =>
                 /\ now >= c.start + PROVIDER_TIMEOUT
                 /\ srch'.searchResults[c.index] = Null
                 /\ st'[p] = st[p]
           /\ (c.phase = "orphan" /\ c2.phase = "done") =>
                 /\ o.report = "success" => st'[p].successCount = st[p].successCount + 1
                 /\ o.report = "failure" =>
                       st'[p].lastFailureTime = now /\ st'[p].failureCount > 0
                 /\ o.report = "none" => st'[p] = st[p]]_vars

C31_Witness ==
  \E p \in AllProviders :
    /\ srch.call[p].phase = "done"
    /\ srch.call[p].answer = "ok"
    /\ srch.call[p].report = "success"
    /\ srch.searchResults[srch.call[p].index] = Null
    /\ st[p].successCount > 0

\* what getAvailableProviders(false, 0.2) returns when called now
SelectedNow == Elems(getAvailableProviders(Recovered(st, ProviderName, now), FALSE,
                                           SELECTION_MIN_WEIGHT))

\* C32: no provider is excluded from routing forever: a provider absent
\* from the selection getAvailableProviders(false, 0.2), deprecated or below
\* the weight threshold, appears in it again once no further failure is
\* recorded (here: no further outcome can be recorded) and time advances.
C32_NoStarvation ==
  \A p \in ProviderName :
    [](((p \notin SelectedNow) /\ steps = MaxSteps) => <>(p \in SelectedNow))

\* the cooldown of C33 with base B
CooldownWithBase(s, B) ==
  LET c == B * s.cooldownMultiplier
      lo == IF c < MIN_COOLDOWN THEN MIN_COOLDOWN ELSE c
  IN  IF lo > MAX_COOLDOWN THEN MAX_COOLDOWN ELSE lo

\* C33: checkProviderRecovery un-deprecates a provider only when
\* now - lastFailureTime exceeds min(24 h, max(1 min, B * cooldownMultiplier)),
\* B being 1 hour if the failure that deprecated the provider was recorded as
\* a rate-limit failure and 5 minutes otherwise; until then it changes
\* nothing.  Stated for the providers whose deprecating failure the state
\* determines: the only failure counted was recorded with isRateLimit, or no
\* failure was ever recorded with isRateLimit.
C33_CooldownByFailureKind ==
  [][\A p \in ProviderName :
       LET s == st[p]
           byRateLimit == s.failureCount = 1 /\ rlTime[p] = s.lastFailureTime
           B == IF byRateLimit THEN RATE_LIMIT_COOLDOWN ELSE BASE_COOLDOWN_PERIOD
       IN  (/\ s.isDeprecated
            /\ s.lastFailureTime # NoTime
            /\ byRateLimit \/ rlTime[p] = NoTime
            /\ QueryCovers(p)
            /\ ~(now - s.lastFailureTime > CooldownWithBase(s, B)))
           => st'[p] = s]_vars

\* C34: recordProviderSuccess on a provider that is not deprecated and has
\* failureCount = n > 0 makes failureCount n - 1, adds one to successCount
\* and leaves isDeprecated false; the provider is not back in the initial
\* healthy state: its weight stays below 1.  (successCount changes in no
\* other operation.)
C34_SuccessRecoversGradually ==
  [][\A p \in ProviderName :
       (/\ st'[p].successCount # st[p].successCount
        /\ ~st[p].isDeprecated
        /\ st[p].failureCount > 0)
       => /\ st'[p].failureCount = st[p].failureCount - 1
          /\ st'[p].successCount = st[p].successCount + 1
          /\ ~st'[p].isDeprecated
          /\ RLt(st'[p].weight, One)
          /\ st'[p].lastFailureTime = st[p].lastFailureTime]_vars

\* a success was the last outcome recorded (consec = 0) for a provider that
\* had failed twice
C34_Witness ==
  \E p \in ProviderName :
    /\ st[p].failureCount = 1
    /\ st[p].successCount = 1
    /\ ~st[p].isDeprecated
    /\ consec[p] = 0
    /\ steps = 3
    /\ RLt(st[p].weight, One)

\* the score a response entry is ranked by: the Merger has already weighted
\* the scores of what it returned
RankScore(r) == IF Len(srch.resultsByProvider) > 1 THEN r.score ELSE WeightedScore(r)

\* C35: the results of every response that is not served from the cache are
\* a Merger output: no two entries have URLs that normalize to the same
\* string, and the entries are ordered by non-increasing weighted score, also
\* when a single provider contributed.
C35_ResponseIsMerged ==
  (srch.pc = "done" /\ srch.outcome = "resolved" /\ ~srch.response.fromCache) =>
    \A i, j \in 1..Len(srch.response.results) :
      i < j =>
        /\ normalizeUrl(srch.response.results[i].url) # normalizeUrl(srch.response.results[j].url)
        /\ ~RLt(RankScore(srch.response.results[i]), RankScore(srch.response.results[j]))

\* C36: for a score-sorted list of n results without a knowledge level, the
\* Merger's level assignment buckets them by position into five bands of
\* equal width: the top fifth gets level 1, the next fifth level 2, and so on
\* to level 5 for the bottom fifth; when n is a multiple of 5 each level is
\* given to exactly n/5 results.
C36_FiveEqualBands ==
  (/\ merger.phase = "leveled"
   /\ \A i \in 1..Len(merger.input) : merger.input[i].knowledgeLevel = 0) =>
    LET n == Len(merger.input)
    IN  /\ \A i \in 1..n : merger.output[i].knowledgeLevel = ((5 * (i - 1)) \div n) + 1
        /\ n % 5 = 0 =>
              \A level \in 1..MAX_LEVEL :
                Cardinality({i \in 1..n : merger.output[i].knowledgeLevel = level}) = n \div 5

\* the position of call c in the order of completion
CompletionIndex(c) == CHOOSE i \in 1..Len(memo.completed) : memo.completed[i] = c

\* the calls with the key whose invocation resolved
ResolvedCalls(key) ==
  {c \in 1..Len(memo.calls) : memo.calls[c].key = key /\ memo.calls[c].phase = "resolved"}

LastResolved(key) ==
  CHOOSE c \in ResolvedCalls(key) :
    \A d \in ResolvedCalls(key) : CompletionIndex(d) <= CompletionIndex(c)

\* C37: for a function wrapped by memoize, the calls with one key that are
\* issued before any of them completes each invoke the function (a call is
\* served from the cache only if an invocation for the key had resolved
\* before it was issued), each caller receives the result of its own
\* invocation, the cache holds the result of the invocation that completed
\* last, and an invocation that rejects stores nothing.
C37_MemoizeNoDedup ==
  /\ \A c \in 1..Len(memo.calls) :
       /\ memo.calls[c].phase = "hit" =>
             \E d \in ResolvedCalls(memo.calls[c].key) :
               /\ CompletionIndex(d) <= memo.calls[c].issuedAfter
               /\ memo.calls[c].result = memo.calls[d].result
       /\ memo.calls[c].phase = "resolved" =>
             memo.calls[c].result = fnResult(memo.calls[c].key, c)
  /\ \A key \in MemoKeys :
       /\ key \in DOMAIN memoryCache.llm =>
             /\ ResolvedCalls(key) # {}
             /\ memoryCache.llm[key].value = memo.calls[LastResolved(key)].result
       /\ (ResolvedCalls(key) # {}
             /\ now <= memo.calls[LastResolved(key)].doneAt + LLM_CACHE_TTL) =>
             key \in DOMAIN memoryCache.llm

\* two calls with one key, the second issued while the first was pending and
\* completed first; a third call whose invocation rejected after both
C37_Witness ==
  /\ Len(memo.calls) = 3
  /\ \A c \in 1..3 : memo.calls[c].key = "k1" /\ memo.calls[c].issuedAfter = 0
  /\ memo.completed = <<2, 1, 3>>
  /\ memo.calls[1].phase = "resolved"
  /\ memo.calls[2].phase = "resolved"
  /\ memo.calls[3].phase = "rejected"
  /\ memoryCache.llm["k1"].value = fnResult("k1", 1)

\* what the continuation of a health check does to the current record of the
\* provider when it reads and writes that record
HealthCheckOnCurrent(s, isHealthy) ==
  IF isHealthy /\ s.isDeprecated THEN resetProviderStatus(s, <<3, 10>>)
  ELSE IF isHealthy THEN [s EXCEPT !.healthCheckStatus = "passing"]
  ELSE IF ~s.isDeprecated THEN [s EXCEPT !.healthCheckStatus = "warning"]
  ELSE s

\* C38: when the health check of a provider ends, the provider is reset to
\* probation only if it is deprecated at that moment, and otherwise the
\* health status is written to the provider's current record: the step is
\* the one the check would make on the current record.
C38_HealthCheckOnCurrentRecord ==
  [][\A p \in ProviderName :
       (hc[p].pending /\ ~hc'[p].pending /\ lastHealthCheckTime' = lastHealthCheckTime)
         => \E isHealthy \in BOOLEAN : st'[p] = HealthCheckOnCurrent(st[p], isHealthy)]_vars

\* C39: a success of openrouter is recorded only when the completion of the
\* language model was a parseable level assignment: whenever the enhancement
\* of a search returns and the success count of openrouter grows, the levels
\* returned are those of some JSON reply for the results sent.
C39_SuccessOnlyOnParsedLevels ==
  [][(srch.llm.phase = "race" /\ srch'.llm.phase = "done"
        /\ st'["openrouter"].successCount > st["openrouter"].successCount)
       => \E reply \in LlmReplies :
            /\ reply.kind = "json"
            /\ srch'.llm.output = enhanceResultsWithLLM(srch.llm.input, reply)]_vars

\* the executions of the function of task id that are in progress
RunningExecutions(id) ==
  {r \in 1..Len(sched.runs) :
     sched.runs[r].phase = "running" /\ sched.objects[sched.runs[r].task].id = id}

\* C40: for every task id, at most one execution of the task's function is
\* in progress at any time.
C40_OneExecutionPerTask ==
  \A id \in TaskIds : Cardinality(RunningExecutions(id)) <= 1

====
